---- MODULE Spec2Model ----
(***************************************************************************)
(* Verification model of the Conclave tick scripts (neo-openclaw).         *)
(*                                                                         *)
(* The repository holds several generations of one cron script,            *)
(* conclave_tick.js.  Each generation is a sequential run: check the       *)
(* environment, GET /status, branch, issue join / allocate / comment /     *)
(* refine requests, notify the operator over Telegram, exit.  The model    *)
(* names the generations by the file that holds them:                      *)
(*   "v1", "v2", "v3"   the three scripts in src/conclave_tick.js          *)
(*   "p000"             src/unnamed/part_000 (fullCount join loop)         *)
(*   "p001a", "p001b"   the two scripts in src/unnamed/part_001            *)
(*   "p003"             src/unnamed/part_003 (retries, comment and refine) *)
(*   "p005"             src/unnamed/part_005                               *)
(*                                                                         *)
(* Strings are modelled by finite tables: a text value is one of a small   *)
(* set of literals and toLowerCase / toUpperCase / trim / includes are     *)
(* tables over those literals.  A missing (undefined, null, "" or 0)       *)
(* field is the falsy value of its type: "" for text and 0 for numbers     *)
(* and identifiers.                                                        *)
(***************************************************************************)
EXTENDS Integers, Sequences, FiniteSets, TLC

VARIABLES
    fnName,     \* pure-function specifications: the function under study
    fnIn,       \* its input
    fnOut,      \* its output ([done |-> FALSE] until applied)
    variant,    \* tick specification: which generation of the script runs
    env,        \* process.env, as far as the script reads it
    pc,         \* position of the run
    st,         \* what the run learned from GET /status
    ordered,    \* the candidate list of the join loop
    idx,        \* loop index of the join loop
    tried,      \* part_003: join attempts made so far
    fullCount,  \* part_000: joins rejected as full so far
    joinLog,    \* join requests issued: the response, and what the script made of it
    allocLog,   \* bodies POSTed to /allocate
    apiLog,     \* every request issued to the Conclave API (httpJson calls)
    notes,      \* every Telegram send attempted, with its outcome
    exitCode,   \* -1 while running, then the process exit code
    okLog,      \* mutating requests the service answered with status 200
    tickEnded,  \* part_003: tickEnd has been called
    console     \* part_003: the tick_start / tick_end lines written by console.log

fnVars == <<fnName, fnIn, fnOut>>
tickVars == <<variant, env, pc, st, ordered, idx, tried, fullCount, joinLog, allocLog, apiLog, notes, exitCode, okLog, tickEnded, console>>
vars == <<fnName, fnIn, fnOut, variant, env, pc, st, ordered, idx, tried, fullCount, joinLog, allocLog, apiLog, notes, exitCode, okLog, tickEnded, console>>

(***************************************************************************)
(* Generic helpers.                                                        *)
(***************************************************************************)
Min(a, b) == IF a < b THEN a ELSE b
Max(a, b) == IF a > b THEN a ELSE b

RECURSIVE SumPct(_)
SumPct(allocs) ==
    IF allocs = <<>> THEN 0 ELSE Head(allocs).percentage + SumPct(Tail(allocs))

\* Array.prototype.filter by index: the elements of s whose index is not i.
WithoutIndex(s, i) ==
    [j \in 1..(Len(s) - (IF i \in 1..Len(s) THEN 1 ELSE 0)) |->
        IF i \in 1..Len(s) /\ j >= i THEN s[j + 1] ELSE s[j]]

\* String.prototype.toUpperCase over the ticker literals of the model.
ToUpper(s) ==
    CASE s = "neo" -> "NEO"
      [] s = " neo " -> " NEO "
      [] s = "abc" -> "ABC"
      [] OTHER -> s

\* String.prototype.trim over the literals of the model.
Trim(s) ==
    CASE s = " neo " -> "neo"
      [] s = " NEO " -> "NEO"
      [] s = " Ended " -> "Ended"
      [] s = " ended " -> "ended"
      [] s = " Allocation " -> "Allocation"
      [] s = " allocation " -> "allocation"
      [] OTHER -> s

\* Array.prototype.sort is stable: insert x behind every element whose key
\* is not larger.  Elements are [d, key] pairs; smaller keys come first.
RECURSIVE InsertByKey(_, _)
InsertByKey(sorted, x) ==
    IF sorted = <<>> THEN <<x>>
    ELSE IF Head(sorted).key <= x.key THEN <<Head(sorted)>> \o InsertByKey(Tail(sorted), x)
    ELSE <<x>> \o sorted

RECURSIVE SortByKey(_)
SortByKey(pairs) ==
    IF pairs = <<>> THEN <<>>
    ELSE InsertByKey(SortByKey(SubSeq(pairs, 1, Len(pairs) - 1)), pairs[Len(pairs)])

Unwrap(pairs) == [j \in 1..Len(pairs) |-> pairs[j].d]

(***************************************************************************)
(* Ideas, as GET /status lists them.  0 and "" are the falsy values.       *)
(***************************************************************************)
NoIdea == [ideaId |-> 0, id |-> 0, uuid |-> 0, nestedId |-> 0,
           ticker |-> "", symbol |-> "", nestedTicker |-> "",
           commentCount |-> 0, refineCount |-> 0]

IdeaKinds ==
    { [NoIdea EXCEPT !.ideaId = 1, !.ticker = "NEO"],
      [NoIdea EXCEPT !.id = 2, !.ticker = "abc"],
      [NoIdea EXCEPT !.ideaId = 3],
      [NoIdea EXCEPT !.ticker = "XYZ"],
      [NoIdea EXCEPT !.uuid = 5, !.symbol = "SYM"],
      [NoIdea EXCEPT !.ideaId = 6, !.id = 9, !.ticker = "neo"],
      [NoIdea EXCEPT !.nestedId = 7, !.nestedTicker = "NST"] }

MaxIdeas == 5

RECURSIVE SeqsUpTo(_, _)
SeqsUpTo(S, n) ==
    IF n = 0 THEN {<<>>}
    ELSE LET shorter == SeqsUpTo(S, n - 1)
         IN  shorter \cup {Append(s, x) : s \in {t \in shorter : Len(t) = n - 1}, x \in S}

\* A builder's result: null, or {allocations: [...]} (bare: the array itself,
\* without the wrapping object).  diverged marks a run of buildAutoAllocations
\* whose remainder loop did not end within LoopFuel steps.
Null == [isNull |-> TRUE, allocations |-> <<>>, diverged |-> FALSE, bare |-> FALSE]
Allocs(a) == [isNull |-> FALSE, allocations |-> a, diverged |-> FALSE, bare |-> FALSE]
AllocsBare(a) == [isNull |-> FALSE, allocations |-> a, diverged |-> FALSE, bare |-> TRUE]

(***************************************************************************)
(* part_003: buildAutoAllocations(ideas, selfPct).                         *)
(* selfPct is a finite number; the model carries it in tenths so that      *)
(* Math.floor has something to do.                                         *)
(***************************************************************************)
MaxPct == 60

Floor10(x10) == x10 \div 10

\* Mutant of UsableIdea_p003: the ticker test is forgotten.
UsableIdea_p003_NoTicker(x) == x.ideaId # 0 \/ x.id # 0

\* x && (x.ideaId || x.id) && x.ticker
UsableIdea_p003(x) == (x.ideaId # 0 \/ x.id # 0) /\ x.ticker # ""

\* String(x.ideaId || x.id)
IdeaIdOf_p003(x) == IF x.ideaId # 0 THEN x.ideaId ELSE x.id

\* list.find(x => String(x.ticker || "").toUpperCase() === selfTicker): index or 0
FindSelfIdx(list, selfTicker) ==
    IF selfTicker = "" THEN 0
    ELSE LET hits == {i \in 1..Len(list) : ToUpper(list[i].ticker) = selfTicker}
         IN  IF hits = {} THEN 0 ELSE CHOOSE i \in hits : \A j \in hits : i <= j

\* Mutant of SelfAlloc: the `pctSelf > 0` guard is dropped.
SelfAlloc_NoPositiveGuard(list, selfIdx, pctSelf) ==
    IF selfIdx # 0
    THEN <<[ideaId |-> IdeaIdOf_p003(list[selfIdx]), percentage |-> pctSelf]>>
    ELSE <<>>

\* if (selfIdea && pctSelf > 0) allocs.push({ideaId, percentage: pctSelf})
SelfAlloc(list, selfIdx, pctSelf) ==
    IF selfIdx # 0 /\ pctSelf > 0
    THEN <<[ideaId |-> IdeaIdOf_p003(list[selfIdx]), percentage |-> pctSelf]>>
    ELSE <<>>

\* Mutant of RemainderStep: the `percentage < 60` test is dropped.
RemainderStep_NoCap(allocs, rem2, i) ==
    [allocs |-> [allocs EXCEPT ![i].percentage = allocs[i].percentage + 1],
     rem2 |-> rem2 - 1,
     idx |-> (i % Len(allocs)) + 1]

\* One pass of the loop body: if (allocs[idx].percentage < 60) { += 1; rem2 -= 1 },
\* then idx = (idx + 1) % allocs.length (i is idx + 1).
RemainderStep(allocs, rem2, i) ==
    LET bump == allocs[i].percentage < MaxPct
    IN  [allocs |-> IF bump
                    THEN [allocs EXCEPT ![i].percentage = allocs[i].percentage + 1]
                    ELSE allocs,
         rem2 |-> IF bump THEN rem2 - 1 ELSE rem2,
         idx |-> (i % Len(allocs)) + 1]

\* The loop `while (rem2 > 0 && allocs.length > 0)`; fuel bounds the unrolling,
\* and a run that exhausts it is reported as diverged.
RECURSIVE DistributeRemainder(_, _, _, _)
DistributeRemainder(allocs, rem2, i, fuel) ==
    IF ~(rem2 > 0 /\ Len(allocs) > 0) THEN [diverged |-> FALSE, allocs |-> allocs]
    ELSE IF fuel = 0 THEN [diverged |-> TRUE, allocs |-> allocs]
    ELSE LET s == RemainderStep(allocs, rem2, i)
         IN  DistributeRemainder(s.allocs, s.rem2, s.idx, fuel - 1)

LoopFuel == 400

\* buildAutoAllocations up to the remainder loop: whether the loop is reached
\* (no early `return null`), and allocs and rem2 as the loop finds them.
LoopEntry(ideas, selfTickerEnv, selfPct10) ==
    LET pctSelf == Max(0, Min(MaxPct, Floor10(selfPct10)))
        list == SelectSeq(ideas, UsableIdea_p003)
    IN  IF Len(list) < 2 THEN [reached |-> FALSE, allocs |-> <<>>, rem2 |-> 0]
        ELSE
        LET selfTicker == ToUpper(Trim(selfTickerEnv))
            selfIdx == FindSelfIdx(list, selfTicker)
            allocs0 == SelfAlloc(list, selfIdx, pctSelf)
            remaining == 100 - SumPct(allocs0)
            others == WithoutIndex(list, selfIdx)
        IN  IF Len(others) < 2 /\ Len(allocs0) = 0
            THEN [reached |-> FALSE, allocs |-> <<>>, rem2 |-> 0]
            ELSE
            LET k == Min(4, Max(2, Len(others)))
                slice == SubSeq(others, 1, Min(k, Len(others)))
                base == remaining \div k
                allocs1 == allocs0 \o
                           [j \in 1..Len(slice) |->
                               [ideaId |-> IdeaIdOf_p003(slice[j]), percentage |-> base]]
                used == base * Len(slice)
            IN  [reached |-> TRUE, allocs |-> allocs1, rem2 |-> remaining - used]

buildAutoAllocations(ideas, selfTickerEnv, selfPct10) ==
    LET entry == LoopEntry(ideas, selfTickerEnv, selfPct10)
    IN  IF ~entry.reached THEN Null
        ELSE
        LET loop == DistributeRemainder(entry.allocs, entry.rem2, 1, LoopFuel)
            allocs == loop.allocs
            total == SumPct(allocs)
        IN  IF loop.diverged
            THEN [isNull |-> FALSE, allocations |-> allocs, diverged |-> TRUE, bare |-> FALSE]
            ELSE IF Len(allocs) < 2 \/ total # 100 THEN Null
            ELSE IF \E j \in 1..Len(allocs) : allocs[j].percentage > MaxPct THEN Null
            ELSE Allocs(allocs)

(***************************************************************************)
(* part_001 (second script): normalizeIdeas and allocateEvenly.            *)
(***************************************************************************)
\* x?.ideaId || x?.id || x?.uuid || x?.idea?.id
NormIdeaId(x) ==
    IF x.ideaId # 0 THEN x.ideaId
    ELSE IF x.id # 0 THEN x.id
    ELSE IF x.uuid # 0 THEN x.uuid
    ELSE x.nestedId

\* x?.ticker || x?.symbol || x?.idea?.ticker
NormTicker(x) ==
    IF x.ticker # "" THEN x.ticker
    ELSE IF x.symbol # "" THEN x.symbol
    ELSE x.nestedTicker

NormUsable(x) == NormIdeaId(x) # 0 /\ NormTicker(x) # ""

normalizeIdeas(rawIdeas) ==
    LET kept == SelectSeq(rawIdeas, NormUsable)
    IN  [j \in 1..Len(kept) |-> [ideaId |-> NormIdeaId(kept[j]), ticker |-> NormTicker(kept[j])]]

allocateEvenly(ideas, maxIdeas) ==
    LET picked == SubSeq(ideas, 1, Min(maxIdeas, Len(ideas)))
        n == Len(picked)
    IN  IF n < 2 THEN Null
        ELSE
        LET base == 100 \div n
            remainder == 100 - base * n
            raw == [j \in 1..n |->
                      LET pct == IF j <= remainder THEN base + 1 ELSE base
                      IN  [ideaId |-> picked[j].ideaId,
                           percentage |-> IF pct > MaxPct THEN MaxPct ELSE pct]]
            sum == SumPct(raw)
        IN  Allocs(IF sum # 100
                   THEN [raw EXCEPT ![n].percentage = raw[n].percentage + (100 - sum)]
                   ELSE raw)

MaxIdeasEvenly == 8

(***************************************************************************)
(* conclave_tick.js (second script): buildAllocations(ideas, myTicker),    *)
(* with CONCLAVE_SELF_ALLOC_PCT in tenths.                                 *)
(***************************************************************************)
\* score = comments * 2 + refined * 3
ActivityScore(x) == x.commentCount * 2 + x.refineCount * 3

\* list.find(x => String(x.ticker || "").toUpperCase() === String(myTicker || "").toUpperCase())
FindMineIdx(list, myTicker) ==
    LET hits == {i \in 1..Len(list) : ToUpper(list[i].ticker) = ToUpper(myTicker)}
    IN  IF hits = {} THEN 0 ELSE CHOOSE i \in hits : \A j \in hits : i <= j

\* if (a.some(z => z.percentage > 60)) { clamp every entry; last += 100 - t2 }
ClampAndRedistribute(a) ==
    IF \E j \in 1..Len(a) : a[j].percentage > MaxPct
    THEN LET c == [j \in 1..Len(a) |-> [a[j] EXCEPT !.percentage = Min(a[j].percentage, MaxPct)]]
             t2 == SumPct(c)
         IN  [c EXCEPT ![Len(c)].percentage = c[Len(c)].percentage + (100 - t2)]
    ELSE a

\* Math.floor(remaining * 0.7) in IEEE-754 doubles, for remaining in 0..100:
\* the product is exact enough everywhere except 90 * 0.7 = 62.99999999999999.
FloorSevenTenths(remaining) ==
    IF remaining = 90 THEN 62 ELSE (remaining * 7) \div 10

buildAllocations(ideas, myTicker, selfAllocPct10) ==
    IF Len(ideas) < 2 THEN Null
    ELSE
    LET mineIdx == FindMineIdx(ideas, myTicker)
        hasMine == mineIdx # 0
        mineId == IF hasMine THEN ideas[mineIdx].ideaId ELSE 0
        kept == SelectSeq(ideas, LAMBDA x : ~hasMine \/ x.ideaId # mineId)
        others == Unwrap(SortByKey([j \in 1..Len(kept) |->
                                       [d |-> kept[j], key |-> 0 - ActivityScore(kept[j])]]))
        maxSelf == Min(MaxPct, Max(0, Floor10(selfAllocPct10)))
        pickCount == Max(2, Min(3, 1 + Len(others)))
        a0 == IF hasMine /\ mineId # 0
              THEN <<[ideaId |-> mineId, percentage |-> maxSelf]>> ELSE <<>>
        remaining == 100 - SumPct(a0)
    IN  IF Len(others) = 0 \/ others[1].ideaId = 0 THEN Null
        ELSE IF ~hasMine
        THEN IF Len(others) >= 2 /\ others[2].ideaId # 0
             THEN AllocsBare(<<[ideaId |-> others[1].ideaId, percentage |-> 60],
                               [ideaId |-> others[2].ideaId, percentage |-> 40]>>)
             ELSE Null
        ELSE
        LET a1 == IF pickCount >= 3 /\ Len(others) >= 2 /\ others[2].ideaId # 0
                  THEN LET p2 == FloorSevenTenths(remaining)
                       IN  a0 \o <<[ideaId |-> others[1].ideaId, percentage |-> p2],
                                   [ideaId |-> others[2].ideaId, percentage |-> remaining - p2]>>
                  ELSE a0 \o <<[ideaId |-> others[1].ideaId, percentage |-> remaining]>>
            total == SumPct(a1)
            a2 == IF total # 100
                  THEN [a1 EXCEPT ![Len(a1)].percentage = a1[Len(a1)].percentage + (100 - total)]
                  ELSE a1
        IN  IF \E j \in 1..Len(a2) : a2[j].percentage <= 0 THEN Null
            ELSE IF Len(a2) < 2 THEN Null
            ELSE Allocs(ClampAndRedistribute(a2))

(***************************************************************************)
(* Debates, as GET /debates lists them, and the selectors.                 *)
(***************************************************************************)
\* String.prototype.toLowerCase over the phase, message and topic literals of the model.
ToLower(s) ==
    CASE s = "Ended" -> "ended"
      [] s = " Ended " -> " ended "
      [] s = "CLOSED" -> "closed"
      [] s = "Debate" -> "debate"
      [] s = "Allocation" -> "allocation"
      [] s = " Allocation " -> " allocation "
      [] s = "Debate is FULL" -> "debate is full"
      [] s = "Oracle feed" -> "oracle feed"
      [] OTHER -> s

PhaseLabels ==
    {"", "propose", "proposal", "debate", "Debate", "allocation", "voting",
     "ended", " Ended ", "results", "closed", "CLOSED"}

\* <<playerCount, currentPlayers>> pairs: capacity unknown, full, with room
Occupancies == {<<0, 0>>, <<0, 3>>, <<2, 2>>, <<4, 1>>}

DebateKinds ==
    {[id |-> i, phase |-> p, playerCount |-> o[1], currentPlayers |-> o[2]] :
        i \in {0, 1}, p \in PhaseLabels, o \in Occupancies}

MaxDebates == 2

\* part_001 / conclave_tick.js (first script) / part_005: debateHasRoom
debateHasRoom(d) ==
    IF d.playerCount > 0 THEN d.currentPlayers < d.playerCount ELSE TRUE

\* part_001: normalizeStr(p).toLowerCase()
debatePhase(p) == ToLower(Trim(p))

\* part_001 (second script): joinableDebate
joinableDebate(d) ==
    LET p == debatePhase(d.phase)
    IN  IF d.id = 0 THEN FALSE
        ELSE IF ~debateHasRoom(d) THEN FALSE
        ELSE IF p = "ended" \/ p = "results" THEN FALSE
        ELSE TRUE

phaseRank_p001b(p0) ==
    LET p == debatePhase(p0)
    IN  IF p = "propose" \/ p = "proposal" THEN 0
        ELSE IF p = "debate" THEN 1
        ELSE IF p = "allocation" THEN 2
        ELSE IF p = "results" THEN 3
        ELSE IF p = "ended" THEN 4
        ELSE 5

\* The comparator of orderDebates as one key: phase rank, then room, then
\* currentPlayers ascending.
MaxPlayers == 10
OrderKey_p001b(d) ==
    (phaseRank_p001b(d.phase) * 2 + (IF debateHasRoom(d) THEN 0 ELSE 1)) * (MaxPlayers + 1)
        + d.currentPlayers

orderDebates_p001b(debates) ==
    LET kept == SelectSeq(debates, joinableDebate)
    IN  Unwrap(SortByKey([j \in 1..Len(kept) |-> [d |-> kept[j], key |-> OrderKey_p001b(kept[j])]]))

\* conclave_tick.js (second script): phaseNorm
phaseNorm(p) == ToLower(Trim(p))

\* conclave_tick.js (second script): isJoinableDebate
isJoinableDebate(d) ==
    LET p == phaseNorm(d.phase)
    IN  IF p = "" THEN TRUE
        ELSE IF p = "ended" \/ p = "results" \/ p = "closed" THEN FALSE
        ELSE IF d.playerCount # 0 /\ d.currentPlayers >= d.playerCount THEN FALSE
        ELSE TRUE

phaseWeight_v2(p0) ==
    LET p == phaseNorm(p0)
    IN  IF p = "proposal" \/ p = "propose" THEN 40
        ELSE IF p = "debate" THEN 30
        ELSE IF p = "allocation" THEN 20
        ELSE 10

\* score = phaseWeight(d.phase) + Math.min(cur, 10)
Score_v2(d) == phaseWeight_v2(d.phase) + Min(d.currentPlayers, 10)

\* scored.sort((a, b) => b.score - a.score): descending score
pickDebatesOrdered_v2(debates) ==
    LET kept == SelectSeq(debates, isJoinableDebate)
    IN  Unwrap(SortByKey([j \in 1..Len(kept) |-> [d |-> kept[j], key |-> 0 - Score_v2(kept[j])]]))

\* conclave_tick.js (first script): phaseRank
phaseRank_v1(p0) ==
    LET p == ToLower(p0)
    IN  IF p = "propose" THEN 0
        ELSE IF p = "debate" THEN 1
        ELSE IF p = "allocation" THEN 2
        ELSE 3

\* The comparator of orderDebates (first script) as one key.
OrderKey_v1(d) ==
    (phaseRank_v1(d.phase) * 2 + (IF debateHasRoom(d) THEN 0 ELSE 1)) * (MaxPlayers + 1)
        + d.currentPlayers

\* conclave_tick.js (first script): orderDebates sorts and keeps every debate
orderDebates_v1(debates) ==
    Unwrap(SortByKey([j \in 1..Len(debates) |-> [d |-> debates[j], key |-> OrderKey_v1(debates[j])]]))

\* part_000 (part_001 first script and part_005 carry the same function): phaseWeight
phaseWeight_p000(p0) ==
    LET p == ToLower(p0)
    IN  IF p = "debate" THEN 30
        ELSE IF p = "allocation" THEN 20
        ELSE IF p = "propose" THEN 10
        ELSE 0

Score_p000(d) == phaseWeight_p000(d.phase) + Min(d.currentPlayers, 10)

\* part_000: pickDebatesOrdered sorts by descending score and keeps every debate
pickDebatesOrdered_p000(debates) ==
    Unwrap(SortByKey([j \in 1..Len(debates) |-> [d |-> debates[j], key |-> 0 - Score_p000(debates[j])]]))

\* part_003: phaseWeight also knows "proposal"
phaseWeight_p003(p0) ==
    LET p == ToLower(p0)
    IN  IF p = "debate" THEN 30
        ELSE IF p = "allocation" THEN 20
        ELSE IF p = "proposal" \/ p = "propose" THEN 10
        ELSE 0

Score_p003(d) == phaseWeight_p003(d.phase) + Min(d.currentPlayers, 10)

\* part_003: pickDebatesOrdered
pickDebatesOrdered_p003(debates) ==
    Unwrap(SortByKey([j \in 1..Len(debates) |-> [d |-> debates[j], key |-> 0 - Score_p003(debates[j])]]))

\* JavaScript values that are a string, null or undefined.
Str(s) == [kind |-> "string", s |-> s]
JsNull == [kind |-> "null", s |-> ""]
JsUndefined == [kind |-> "undefined", s |-> ""]
\* (v || "")
OrEmpty(v) == IF v.kind = "string" THEN v.s ELSE ""

UpperLetters == "ABCDEFGHIJKLMNOPQRSTUVWXYZ"
LowerLetters == "abcdefghijklmnopqrstuvwxyz"
CharAt(s, i) == SubSeq(s, i, i)
\* The position of the one-character string c in s, or 0.
IndexOfChar(s, c) ==
    LET hits == {i \in 1..Len(s) : CharAt(s, i) = c}
    IN  IF hits = {} THEN 0 ELSE CHOOSE i \in hits : \A j \in hits : i <= j

LowerChar(c) ==
    IF IndexOfChar(UpperLetters, c) # 0 THEN CharAt(LowerLetters, IndexOfChar(UpperLetters, c)) ELSE c
UpperChar(c) ==
    IF IndexOfChar(LowerLetters, c) # 0 THEN CharAt(UpperLetters, IndexOfChar(LowerLetters, c)) ELSE c

\* String.prototype.toLowerCase / toUpperCase, character by character
RECURSIVE StrLower(_)
StrLower(s) == IF s = "" THEN "" ELSE LowerChar(Head(s)) \o StrLower(Tail(s))
RECURSIVE StrUpper(_)
StrUpper(s) == IF s = "" THEN "" ELSE UpperChar(Head(s)) \o StrUpper(Tail(s))

\* String.prototype.includes
StrIncludes(t, w) ==
    \E i \in 1..(Len(t) - Len(w) + 1) : SubSeq(t, i, i + Len(w) - 1) = w

\* Mutant of classifyDebate: the text is not lower-cased.
classifyDebate_CaseSensitive(text) ==
    LET t == OrEmpty(text)
        has(arr) == \E w \in arr : StrIncludes(t, w)
    IN  IF has({"oracle", "attestation", "attest", "data feed", "offchain", "onchain data"}) THEN "oracle"
        ELSE IF has({"identity", "reputation", "sybil", "personhood", "credential"}) THEN "identity"
        ELSE IF has({"governance", "vote", "voting", "dao", "delegat"}) THEN "governance"
        ELSE IF has({"market", "auction", "orderbook", "amm", "liquidity", "pricing"}) THEN "markets"
        ELSE IF has({"bridge", "cross-chain", "messaging", "interop"}) THEN "interop"
        ELSE IF has({"privacy", "zk", "zero knowledge", "confidential"}) THEN "privacy"
        ELSE "unknown"

\* part_003: classifyDebate
classifyDebate(text) ==
    LET t == StrLower(OrEmpty(text))
        has(arr) == \E w \in arr : StrIncludes(t, w)
    IN  IF has({"oracle", "attestation", "attest", "data feed", "offchain", "onchain data"}) THEN "oracle"
        ELSE IF has({"identity", "reputation", "sybil", "personhood", "credential"}) THEN "identity"
        ELSE IF has({"governance", "vote", "voting", "dao", "delegat"}) THEN "governance"
        ELSE IF has({"market", "auction", "orderbook", "amm", "liquidity", "pricing"}) THEN "markets"
        ELSE IF has({"bridge", "cross-chain", "messaging", "interop"}) THEN "interop"
        ELSE IF has({"privacy", "zk", "zero knowledge", "confidential"}) THEN "privacy"
        ELSE "unknown"

\* String.prototype.trim
Whitespace == {" ", "\n", "\t"}
RECURSIVE TrimLeft(_)
TrimLeft(s) == IF s # "" /\ Head(s) \in Whitespace THEN TrimLeft(Tail(s)) ELSE s
RECURSIVE TrimRight(_)
TrimRight(s) ==
    IF s # "" /\ CharAt(s, Len(s)) \in Whitespace THEN TrimRight(SubSeq(s, 1, Len(s) - 1)) ELSE s
StrTrim(s) == TrimRight(TrimLeft(s))

\* s.split("\n")
RECURSIVE SplitLines(_)
SplitLines(s) ==
    LET i == IndexOfChar(s, "\n")
    IN  IF i = 0 THEN <<s>> ELSE <<SubSeq(s, 1, i - 1)>> \o SplitLines(SubSeq(s, i + 1, Len(s)))

\* lines.join("\n")
RECURSIVE JoinLines(_)
JoinLines(lines) ==
    IF lines = <<>> THEN ""
    ELSE IF Len(lines) = 1 THEN lines[1]
    ELSE lines[1] \o "\n" \o JoinLines(Tail(lines))

\* Mutant of snip: nothing is cut.
snip_NoCut(s, n) == s

\* part_003: snip(s, n)
snip(s, n) ==
    IF s = "" THEN "" ELSE IF Len(s) > n THEN SubSeq(s, 1, n) \o "..." ELSE s

\* part_003: the templates of buildProposal
Templates ==
    [
     oracle |->
        << "Mechanism: Optimistic oracle. Bonded proposer posts data + commitment; anyone can dispute in a window. Dispute triggers a verification game (fraud proof or bonded arbitration) with slashing.",
           "Onchain design: DataFeedRegistry + BondVault + DisputeGame. Proposals commit to (value, timestamp, merkle/source commitment). Finalization writes to registry; slashing pays honest side.",
           "Incentives: Bonds scale with value-at-risk. Honest proposers earn fees; dishonest lose bond. Challengers get paid when correct so monitoring is profitable.",
           "Attacks + mitigations: bribery (bonds + open challengers), withholding (multi-proposer epochs + last-good fallback), griefing (bond per dispute + rate limits).",
           "Tradeoffs: dispute window adds latency, but security is enforceable without trusted parties." >>,
     identity |->
        << "Mechanism: Sybil resistance via staged reputation: time + stake + verifiable contributions, with optional zk proofs for predicates. No one-shot identity claims.",
           "Onchain design: Identity commitments + staked attesters + zk verifier. Attesters are slashable for contradictory attestations. Actions gated by reputation tiers.",
           "Incentives: Attesters earn fees but are slashable. Users earn influence over time. High-risk actions require higher rep or locked stake.",
           "Attacks + mitigations: collusion (diverse attesters + slashing), farming (maturation + lockups), privacy leaks (commitments + zk predicates).",
           "Tradeoffs: harder onboarding, but real sybil resistance and credibility." >>,
     governance |->
        << "Mechanism: Two-house governance: token vote + contribution reputation vote. Proposal passes only if both approve. Timelock plus constrained emergency veto.",
           "Onchain design: GovernorCore + RepHouse. Reputation decays and is earned via onchain verifiable actions. Snapshot voting; timelocked execution.",
           "Incentives: Limits whale capture while still respecting capital at risk. Contributors gain influence by shipping, not by buying votes.",
           "Attacks + mitigations: vote buying (lockups), capture (dual thresholds + timelock), rep gaming (decay + verifiable actions).",
           "Tradeoffs: slower decisions, higher legitimacy and resilience." >>,
     markets |->
        << "Mechanism: Hybrid AMM with dynamic fees plus batch auctions for large trades to reduce MEV and improve discovery in thin liquidity.",
           "Onchain design: Pool with volatility-based fee curve + auction module. Optional intent flow reduces sandwiching; TWAP safeguards for updates.",
           "Incentives: LPs earn more in volatility; traders get better execution; MEV opportunities are constrained by auctions.",
           "Attacks + mitigations: MEV (batching), oracle manipulation (TWAP + dispute-able oracle), LP dilution (dynamic fees + withdrawal delay).",
           "Tradeoffs: more complexity, better execution under stress." >>,
     interop |->
        << "Mechanism: Cross-chain messaging using light clients where possible and optimistic bonded relays otherwise, with fraud proofs and dispute windows.",
           "Onchain design: Router + LightClientVerifier + OptimisticInbox. Light-client verifies headers. Optimistic path uses bonded relayers and open fraud proving.",
           "Incentives: Relayers earn fees; fraud provers earn slashed bonds; security scales with route risk.",
           "Attacks + mitigations: collusion (large bonds + open proving), reorg risk (confirm thresholds), DoS (fees + rate limits).",
           "Tradeoffs: latency, but strong security without trusted committees." >>,
     privacy |->
        << "Mechanism: zk proofs for private state transitions. Separate spend vs view keys. Optional selective disclosure for compliance.",
           "Onchain design: Verifier + encrypted commitments + nullifiers to prevent double spend. Batch proofs to reduce cost; relayers to hide origin.",
           "Incentives: Users pay for proof verification; relayers paid to improve privacy; fees fund verifier ops.",
           "Attacks + mitigations: proof bugs (audits + timelocked upgrades), metadata leaks (batching + relayers), spam (fees + deposits).",
           "Tradeoffs: higher cost, privacy and composability increase." >>
    ]

ProposalCeiling == 2800

\* part_003: buildProposal(text, category)
buildProposal(text, category) ==
    LET brief == StrTrim(OrEmpty(text))
        lines == SplitLines(brief)
        kept == SelectSeq([i \in 1..Len(lines) |-> StrTrim(lines[i])], LAMBDA l : l # "")
        briefOneLine == IF kept = <<>> THEN "Debate brief" ELSE kept[1]
        intro == "Problem (restated): " \o snip(briefOneLine, 140)
    IN  IF category \notin DOMAIN Templates THEN JsNull
        ELSE Str(snip(JoinLines(<<
                 "Title: Practical design for this brief",
                 intro,
                 "",
                 "Mechanism: " \o Templates[category][1],
                 "",
                 "Onchain Design: " \o Templates[category][2],
                 "",
                 "Incentives: " \o Templates[category][3],
                 "",
                 "Attack Vectors + Mitigations: " \o Templates[category][4],
                 "",
                 "Tradeoffs: " \o Templates[category][5],
                 "",
                 "Why this wins: enforceable incentives + explicit failure handling, not slogans." >>),
                 ProposalCeiling))

(***************************************************************************)
(* part_001 (second script): makeTickerFromTheme(theme, fallbackSeed).     *)
(***************************************************************************)
\* normalizeStr(x): String(x || "").trim()
normalizeStr(x) == StrTrim(OrEmpty(x))

\* .replace(/[^A-Z ]/g, " ")
RECURSIVE ReplaceNonLetters(_)
ReplaceNonLetters(s) ==
    IF s = "" THEN ""
    ELSE (IF IndexOfChar(UpperLetters, Head(s)) # 0 \/ Head(s) = " " THEN Head(s) ELSE " ")
         \o ReplaceNonLetters(Tail(s))

\* .split(/\s+/).filter(Boolean), over a string of letters and spaces
RECURSIVE SplitWords(_)
SplitWords(s) ==
    LET i == IndexOfChar(s, " ")
    IN  IF s = "" THEN <<>>
        ELSE IF i = 0 THEN <<s>>
        ELSE IF i = 1 THEN SplitWords(Tail(s))
        ELSE <<SubSeq(s, 1, i - 1)>> \o SplitWords(SubSeq(s, i + 1, Len(s)))

\* t.join(" ")
RECURSIVE JoinWords(_)
JoinWords(t) ==
    IF t = <<>> THEN ""
    ELSE IF Len(t) = 1 THEN t[1]
    ELSE t[1] \o " " \o JoinWords(Tail(t))

ThemeWords(theme) == SplitWords(ReplaceNonLetters(StrUpper(normalizeStr(theme))))

\* The candidate tickers, in the order the keyword tests push them.
TickerPicks(keywords) ==
    (IF StrIncludes(keywords, "PROVENANCE") THEN <<"TRACE">> ELSE <<>>)
    \o (IF StrIncludes(keywords, "AUTHENTIC") THEN <<"AUTH">> ELSE <<>>)
    \o (IF StrIncludes(keywords, "SUPPLY") THEN <<"CHAIN">> ELSE <<>>)
    \o (IF StrIncludes(keywords, "PHYSICAL") THEN <<"TAG">> ELSE <<>>)
    \o (IF StrIncludes(keywords, "GOODS") THEN <<"PROOF">> ELSE <<>>)
    \o (IF StrIncludes(keywords, "ONCHAIN") \/ StrIncludes(keywords, "ON") THEN <<"ATTEST">> ELSE <<>>)

\* for (const p of picks): the first pick of 3..6 letters, or of more than 6
\* cut to 6; "" when there is none
RECURSIVE FirstValidPick(_)
FirstValidPick(picks) ==
    IF picks = <<>> THEN ""
    ELSE IF Len(picks[1]) >= 3 /\ Len(picks[1]) <= 6 THEN picks[1]
    ELSE IF Len(picks[1]) > 6 THEN SubSeq(picks[1], 1, 6)
    ELSE FirstValidPick(Tail(picks))

\* Mutant of InitialsOf: the initials of the first two words only.
InitialsOf_FirstTwo(t) ==
    (IF Len(t) >= 1 THEN CharAt(t[1], 1) ELSE "") \o (IF Len(t) >= 2 THEN CharAt(t[2], 1) ELSE "")

\* t.slice(0, 3).map((w) => w[0]).join("")
InitialsOf(t) ==
    (IF Len(t) >= 1 THEN CharAt(t[1], 1) ELSE "")
    \o (IF Len(t) >= 2 THEN CharAt(t[2], 1) ELSE "")
    \o (IF Len(t) >= 3 THEN CharAt(t[3], 1) ELSE "")

\* charCodeAt over the characters of the seeds: digits, letters, space,
\* "-" and "~"
Digits == "0123456789"
CharCode(c) ==
    IF IndexOfChar(Digits, c) # 0 THEN 47 + IndexOfChar(Digits, c)
    ELSE IF IndexOfChar(UpperLetters, c) # 0 THEN 64 + IndexOfChar(UpperLetters, c)
    ELSE IF IndexOfChar(LowerLetters, c) # 0 THEN 96 + IndexOfChar(LowerLetters, c)
    ELSE IF c = " " THEN 32
    ELSE IF c = "-" THEN 45
    ELSE 126

\* The hash h is an unsigned 32-bit integer, kept as two 16-bit halves.
Half == 65536
U32(hi, lo) == [hi |-> hi, lo |-> lo]

\* h = (h * 31 + code) >>> 0
HashStep(h, code) ==
    LET lo2 == h.lo * 31 + code
    IN  U32((h.hi * 31 + lo2 \div Half) % Half, lo2 % Half)

RECURSIVE HashFrom(_, _)
HashFrom(h, seed) == IF seed = "" THEN h ELSE HashFrom(HashStep(h, CharCode(Head(seed))), Tail(seed))

\* h % 26, and (h / 26) >>> 0
Mod26(h) == ((h.hi % 26) * (Half % 26) + h.lo) % 26
Div26(h) == U32(h.hi \div 26, ((h.hi % 26) * Half + h.lo) \div 26)

\* for (let i = 0; i < 4; i++) { out += letters[h % 26]; h = (h / 26) >>> 0; }
RECURSIVE SeedLetters(_, _)
SeedLetters(h, n) ==
    IF n = 0 THEN "" ELSE CharAt(UpperLetters, Mod26(h) + 1) \o SeedLetters(Div26(h), n - 1)

makeTickerFromTheme(theme, fallbackSeed) ==
    LET t == ThemeWords(theme)
        pick == FirstValidPick(TickerPicks(JoinWords(t)))
        init == InitialsOf(t)
        seed == normalizeStr(IF OrEmpty(fallbackSeed) = "" THEN Str("SEED") ELSE fallbackSeed)
    IN  IF pick # "" THEN pick
        ELSE IF Len(init) >= 3 THEN SubSeq(init, 1, Min(Len(init), 6))
        ELSE SubSeq(SeedLetters(HashFrom(U32(0, 0), seed), 4), 1, 4)

\* debateText(d) of the debates of a tick, and their categories, tabulated.
TickTopics == {"Oracle feed", "oracle feed", "weather"}
TopicCategory == [t \in TickTopics |-> classifyDebate(Str(t))]

\* part_003: buildJoinBodyForDebate(d).skip -- an unknown topic has no template
JoinBodySkip(d) == TopicCategory[d.topic] = "unknown"

(***************************************************************************)
(* The tick: one run of a script against the Conclave API and Telegram.    *)
(***************************************************************************)
Variants == {"v1", "v2", "v3", "p000", "p001a", "p001b", "p003", "p005"}
LoopVariants == Variants \ {"v3"}

\* The candidate list of the join loop, per script.
OrderedFor(v, debates) ==
    CASE v = "v1" -> SelectSeq(orderDebates_v1(debates), debateHasRoom)
      [] v = "v2" -> pickDebatesOrdered_v2(debates)
      [] v = "p000" -> pickDebatesOrdered_p000(debates)
      [] v = "p001a" -> pickDebatesOrdered_p000(debates)
      [] v = "p001b" -> orderDebates_p001b(debates)
      [] v = "p003" -> pickDebatesOrdered_p003(debates)
      [] v = "p005" -> SelectSeq(pickDebatesOrdered_p000(debates), debateHasRoom)
      [] OTHER -> debates

\* The constant of Math.min(N, ordered.length), per script; the second script
\* of conclave_tick.js reads it from CONCLAVE_MAX_JOIN_ATTEMPTS.
AttemptCap(v, e) ==
    CASE v = "v1" -> 10
      [] v = "v2" -> e.maxJoin
      [] v = "p000" -> 5
      [] v = "p001a" -> 5
      [] v = "p001b" -> 8
      [] v = "p003" -> 6
      [] v = "p005" -> 10
      [] OTHER -> 1

\* String.prototype.includes over the error literals of the model: the
\* keywords of the scripts that occur in a (lower-cased) message.
KeywordsIn(msg) ==
    CASE msg = "debate is full" -> {"full"}
      [] msg = "not accepting players" -> {"not accepting", "not accepting players"}
      [] msg = "not accepting entries" -> {"not accepting"}
      [] msg = "debate closed" -> {"closed"}
      [] msg = "debate has ended" -> {"ended"}
      [] OTHER -> {}

Includes(msg, kw) == kw \in KeywordsIn(msg)

\* A response of httpJson to a join request: status, whether the body parsed
\* as JSON, the error and message fields of the JSON, and the raw text.
JoinResponses ==
    { [status |-> 200, json |-> TRUE,  error |-> "", message |-> "", text |-> "joined"],
      [status |-> 400, json |-> TRUE,  error |-> "Debate is FULL", message |-> "", text |-> "json"],
      [status |-> 503, json |-> FALSE, error |-> "", message |-> "", text |-> "debate is full"],
      [status |-> 400, json |-> TRUE,  error |-> "", message |-> "not accepting players", text |-> "json"],
      [status |-> 400, json |-> TRUE,  error |-> "not accepting entries", message |-> "", text |-> "json"],
      [status |-> 409, json |-> TRUE,  error |-> "debate closed", message |-> "", text |-> "json"],
      [status |-> 409, json |-> TRUE,  error |-> "debate has ended", message |-> "", text |-> "json"],
      [status |-> 500, json |-> TRUE,  error |-> "boom", message |-> "debate is full", text |-> "json"],
      [status |-> 502, json |-> FALSE, error |-> "", message |-> "", text |-> ""] }

\* safeErrMsg: j.error || j.message when the body is JSON with one of them,
\* else the raw text
safeErrMsg(r) ==
    IF r.json /\ (r.error # "" \/ r.message # "")
    THEN (IF r.error # "" THEN r.error ELSE r.message)
    ELSE r.text

\* The test that lets the loop `continue` after a non-200 join, per script.
SoftReject(v, r) ==
    LET err == ToLower(safeErrMsg(r))
    IN  CASE v = "v1" -> Includes(err, "full") \/ Includes(err, "not accepting players")
          [] v = "v2" -> Includes(err, "full") \/ Includes(err, "not accepting") \/ Includes(err, "ended")
          [] v = "p000" -> Includes(err, "full")
          [] v = "p001a" -> r.status = 400 /\ safeErrMsg(r) # "" /\ Includes(err, "full")
          [] v = "p001b" -> Includes(err, "full") \/ Includes(err, "not accepting players")
          [] v = "p003" -> Includes(err, "full") \/ Includes(err, "not accepting")
                            \/ Includes(err, "closed") \/ Includes(err, "ended")
          [] v = "p005" -> Includes(err, "full")
          [] OTHER -> FALSE

\* Mutant of Attemptable: the phase and skip tests of part_003 are left out.
Attemptable_IdOnly(v, d) == d.id # 0

\* The `continue` tests ahead of the join request: `if (!d?.id) continue`, and
\* in part_003 the phase test and `if (built.skip) continue`.
Attemptable(v, d) ==
    /\ d.id # 0
    /\ (v = "p003") =>
          /\ ToLower(d.phase) \notin {"ended", "results"}
          /\ ~JoinBodySkip(d)

\* Does the script announce an accepted join?
NotifiesJoin(v) == v \in {"v1", "v3", "p000", "p001a", "p003", "p005"}

\* process.env as the scripts read it.  token, bot, chat: CONCLAVE_TOKEN,
\* TELEGRAM_BOT_TOKEN, TELEGRAM_CHAT_ID are set; ping: CONCLAVE_TICK_PING is on;
\* lowBalValid: parseEth(CONCLAVE_LOW_BALANCE_ETH) is not null; dailyDue:
\* shouldSendDailyBalanceUtc(now); ticker: CONCLAVE_TICKER / CONCLAVE_SELF_TICKER;
\* selfPct10: CONCLAVE_SELF_ALLOC_PCT in tenths; maxJoin: CONCLAVE_MAX_JOIN_ATTEMPTS.
EnvDefault ==
    [token |-> TRUE, bot |-> TRUE, chat |-> TRUE, ping |-> FALSE, lowBalValid |-> TRUE,
     dailyDue |-> FALSE, ticker |-> "", selfPct10 |-> 50, maxJoin |-> 5]

EnvComplete(e) == e.token /\ e.bot /\ e.chat

EnvOptions(v) ==
    CASE v = "p001a" -> {[EnvDefault EXCEPT !.ping = b] : b \in BOOLEAN}
      [] v = "p001b" -> {[EnvDefault EXCEPT !.lowBalValid = b] : b \in BOOLEAN}
      [] v = "p003" -> {[EnvDefault EXCEPT !.dailyDue = b, !.ticker = t[1], !.selfPct10 = t[2]] :
                            b \in BOOLEAN, t \in {<<"", 50>>, <<" neo ", 599>>}}
      [] v = "v2" -> {[EnvDefault EXCEPT !.ticker = t[1], !.selfPct10 = t[2], !.maxJoin = t[3]] :
                            t \in {<<"", 600, 5>>, <<" neo ", 50, 1>>}}
      [] OTHER -> {EnvDefault}

EnvsFor(v) ==
    EnvOptions(v) \cup
    {[EnvDefault EXCEPT !.token = c[1], !.bot = c[2], !.chat = c[3]] :
        c \in (BOOLEAN \X BOOLEAN \X BOOLEAN) \ {<<TRUE, TRUE, TRUE>>}}

\* strEnv(name, fallback): the trimmed value, or the fallback when it is empty
strEnv(raw, fallback) == IF Trim(raw) # "" THEN Trim(raw) ELSE fallback

\* Ideas of a status body during a tick.
TickIdeaKinds ==
    { [NoIdea EXCEPT !.ideaId = 1, !.ticker = "NEO"],
      [NoIdea EXCEPT !.ideaId = 2, !.ticker = "abc", !.commentCount = 1] }
MaxTickIdeas == 2
TickIdeaLists == SeqsUpTo(TickIdeaKinds, MaxTickIdeas)

\* What the debate-phase branch of part_003 computes from a status body:
\* selfFound: findSelfIdea found an idea with a ticker or an id; selfTicker,
\* selfIdeaId: its ticker and id; already: commentAlreadyPosted; flags:
\* detectStrongCriticism is non-empty; refinedThisHour: the description holds
\* the hour marker; templated: buildRefinement has a template for the brief.
NoView == [selfFound |-> FALSE, selfTicker |-> "", selfIdeaId |-> 0, already |-> FALSE,
           flags |-> FALSE, refinedThisHour |-> FALSE, templated |-> FALSE]
DebateViews ==
    { NoView,
      [NoView EXCEPT !.selfFound = TRUE, !.selfTicker = "NEO", !.selfIdeaId = 1,
                     !.flags = TRUE, !.templated = TRUE],
      [NoView EXCEPT !.selfFound = TRUE, !.selfTicker = "NEO", !.selfIdeaId = 1,
                     !.already = TRUE],
      [NoView EXCEPT !.selfFound = TRUE, !.selfIdeaId = 1,
                     !.flags = TRUE, !.templated = TRUE],
      [NoView EXCEPT !.selfFound = TRUE, !.selfTicker = "NEO",
                     !.flags = TRUE, !.templated = TRUE],
      [NoView EXCEPT !.selfFound = TRUE, !.selfTicker = "NEO", !.selfIdeaId = 1,
                     !.flags = TRUE, !.refinedThisHour = TRUE, !.templated = TRUE],
      [NoView EXCEPT !.selfFound = TRUE, !.selfTicker = "NEO", !.selfIdeaId = 1,
                     !.flags = TRUE] }

\* if (!refinedThisHour && flags.length > 0 && selfIdeaId) { if (refined) POST /refine }
RefineDue(w) == w.selfFound /\ ~w.refinedThisHour /\ w.flags /\ w.selfIdeaId # 0 /\ w.templated
\* if (!already && selfTicker) POST /comment
CommentDue(w) == w.selfFound /\ ~w.already /\ w.selfTicker # ""

\* Bodies of GET /status.  inGame and inDebate are "unset", "true" or "false".
StatusBody(g, d, p, l, w) == [inGame |-> g, inDebate |-> d, phase |-> p, ideas |-> l, view |-> w]
StatusBodies ==
    {StatusBody(f[1], f[2], "", <<>>, NoView) :
        f \in {<<"unset", "unset">>, <<"true", "unset">>, <<"unset", "true">>, <<"false", "true">>}}
    \cup {StatusBody("true", "true", "debate", <<>>, w) : w \in DebateViews}
    \cup {StatusBody("true", "true", p, l, NoView) :
            p \in {"allocation", " Allocation "}, l \in TickIdeaLists}
    \cup {StatusBody("true", "true", "results", <<>>, NoView)}
    \cup {StatusBody("false", "true", "allocation", <<>>, NoView)}

\* Outcomes of httpJson: status 0 stands for a fetch that rejected (httpJson
\* throws); otherwise the HTTP status and whether the body parsed as JSON.
NoBody == StatusBody("unset", "unset", "", <<>>, NoView)
StatusResponses ==
    { [status |-> 0, json |-> FALSE, body |-> NoBody],
      [status |-> 500, json |-> TRUE, body |-> NoBody],
      [status |-> 200, json |-> FALSE, body |-> NoBody] }
    \cup {[status |-> 200, json |-> TRUE, body |-> b] : b \in StatusBodies}

\* Debates of a /debates body during a tick.
TickDebate(i, p, pcnt, cur, t) ==
    [id |-> i, phase |-> p, playerCount |-> pcnt, currentPlayers |-> cur, topic |-> t]
TickDebateKinds ==
    { TickDebate(1, "propose", 4, 1, "Oracle feed"),
      TickDebate(2, "debate", 0, 3, "oracle feed"),
      TickDebate(0, "propose", 0, 0, "oracle feed"),
      TickDebate(3, "ended", 0, 0, "oracle feed"),
      TickDebate(4, "debate", 2, 2, "weather") }
MaxTickDebates == 3
TickDebateLists == SeqsUpTo(TickDebateKinds, MaxTickDebates)

DebatesResponses ==
    { [status |-> 0, json |-> FALSE, debates |-> <<>>],
      [status |-> 500, json |-> TRUE, debates |-> <<>>],
      [status |-> 200, json |-> FALSE, debates |-> <<>>] }
    \cup {[status |-> 200, json |-> TRUE, debates |-> l] : l \in TickDebateLists}

NetworkError == [status |-> 0, json |-> FALSE, error |-> "", message |-> "", text |-> ""]

NoStatus ==
    [inGame |-> FALSE, phase |-> "", inGameField |-> "unset", inDebateField |-> "unset",
     allocBody |-> Null, refineDue |-> FALSE, commentDue |-> FALSE]

(***************************************************************************)
(* Specification SpecAlloc: the allocation builders as pure functions.     *)
(* Init draws the input; one action per builder applies it.                *)
(***************************************************************************)
SelfTickerVals == {"", " neo ", "ABC"}
SelfPctVals == {-25, 57, 599, 1000}

NotDone == [done |-> FALSE]
Done(r) == [done |-> TRUE, result |-> r]

\* part_003 logs tick_start when the module loads; no other script logs.
StartLines(v) == IF v = "p003" THEN <<"tick_start">> ELSE <<>>

TickIdle ==
    /\ variant = "none"
    /\ env = <<>>
    /\ pc = "idle"
    /\ st = <<>>
    /\ ordered = <<>>
    /\ idx = 0
    /\ tried = 0
    /\ fullCount = 0
    /\ joinLog = <<>>
    /\ allocLog = <<>>
    /\ apiLog = <<>>
    /\ notes = <<>>
    /\ exitCode = -1
    /\ okLog = <<>>
    /\ tickEnded = FALSE
    /\ console = <<>>

InitAlloc ==
    /\ TickIdle
    /\ fnOut = NotDone
    /\ \/ /\ fnName = "buildAutoAllocations"
          /\ fnIn \in [ideas : SeqsUpTo(IdeaKinds, MaxIdeas),
                        selfTicker : SelfTickerVals, selfPct10 : SelfPctVals]
       \/ /\ fnName = "allocateEvenly"
          /\ fnIn \in [ideas : SeqsUpTo(IdeaKinds, MaxIdeas),
                        selfTicker : {""}, selfPct10 : {0}]

ApplyBuildAutoAllocations ==
    /\ fnName = "buildAutoAllocations"
    /\ fnOut = NotDone
    /\ fnOut' = Done(buildAutoAllocations(fnIn.ideas, fnIn.selfTicker, fnIn.selfPct10))
    /\ UNCHANGED <<fnName, fnIn, tickVars>>

\* allocateEvenly(normalizeIdeas(statusRes.json), 8), as the allocation branch calls it
ApplyAllocateEvenly ==
    /\ fnName = "allocateEvenly"
    /\ fnOut = NotDone
    /\ fnOut' = Done(allocateEvenly(normalizeIdeas(fnIn.ideas), MaxIdeasEvenly))
    /\ UNCHANGED <<fnName, fnIn, tickVars>>

NextAlloc == ApplyBuildAutoAllocations \/ ApplyAllocateEvenly

SpecAlloc == InitAlloc /\ [][NextAlloc]_vars

\* An allocation body obeys the Conclave rules: at least 2 entries, every
\* percentage an integer in (0, 60], total exactly 100.
ValidAllocation(a) ==
    /\ Len(a) >= 2
    /\ \A j \in 1..Len(a) : a[j].percentage \in 1..60
    /\ SumPct(a) = 100

\* C1: buildAutoAllocations returns null or a valid allocation, for every
\* ideas list, every CONCLAVE_SELF_TICKER and every finite selfPct.
C1_AutoAllocValidOrNull ==
    (fnName = "buildAutoAllocations" /\ fnOut # NotDone) =>
        /\ ~fnOut.result.diverged
        /\ (fnOut.result.isNull \/ ValidAllocation(fnOut.result.allocations))

\* C1 witness: a non-null result with a self entry whose share was reserved.
C1_Witness ==
    /\ fnName = "buildAutoAllocations" /\ fnOut # NotDone
    /\ ~fnOut.result.isNull
    /\ Len(fnOut.result.allocations) = 5
    /\ fnIn.selfPct10 = 599

\* An idea carries an id and a ticker, under any of the field names the
\* scripts read them from.
CarriesIdAndTicker(x) ==
    /\ (x.ideaId # 0 \/ x.id # 0 \/ x.uuid # 0 \/ x.nestedId # 0)
    /\ (x.ticker # "" \/ x.symbol # "" \/ x.nestedTicker # "")

UsableCount(ideas) == Cardinality({i \in 1..Len(ideas) : CarriesIdAndTicker(ideas[i])})

\* C2: with fewer than 2 usable ideas both builders (buildAutoAllocations, and
\* allocateEvenly over normalizeIdeas) return null.
C2_FewerThanTwoUsableIsNull ==
    (fnName \in {"buildAutoAllocations", "allocateEvenly"} /\ fnOut # NotDone
        /\ UsableCount(fnIn.ideas) < 2)
    => fnOut.result.isNull

\* C2 witness: three ideas of which exactly one is usable, and a null result.
C2_Witness ==
    /\ fnName = "allocateEvenly" /\ fnOut # NotDone
    /\ Len(fnIn.ideas) = 3 /\ UsableCount(fnIn.ideas) = 1
    /\ fnOut.result.isNull

(***************************************************************************)
(* Specification SpecSelect: the selectors as pure functions.              *)
(***************************************************************************)
InitSelect ==
    /\ TickIdle
    /\ fnOut = NotDone
    /\ fnName \in {"orderDebates_p001b", "pickDebatesOrdered_v2"}
    /\ fnIn \in [debates : SeqsUpTo(DebateKinds, MaxDebates)]

ApplyOrderDebates_p001b ==
    /\ fnName = "orderDebates_p001b"
    /\ fnOut = NotDone
    /\ fnOut' = Done(orderDebates_p001b(fnIn.debates))
    /\ UNCHANGED <<fnName, fnIn, tickVars>>

ApplyPickDebatesOrdered_v2 ==
    /\ fnName = "pickDebatesOrdered_v2"
    /\ fnOut = NotDone
    /\ fnOut' = Done(pickDebatesOrdered_v2(fnIn.debates))
    /\ UNCHANGED <<fnName, fnIn, tickVars>>

NextSelect == ApplyOrderDebates_p001b \/ ApplyPickDebatesOrdered_v2

SpecSelect == InitSelect /\ [][NextSelect]_vars

TerminalLabels == {"ended", "results", "closed"}
InTerminalPhase(d) == ToLower(Trim(d.phase)) \in TerminalLabels
AtFullCapacity(d) == d.playerCount > 0 /\ d.currentPlayers >= d.playerCount

SelectorApplied == fnName \in {"orderDebates_p001b", "pickDebatesOrdered_v2"} /\ fnOut # NotDone

\* C4: no selector output (orderDebates of part_001, pickDebatesOrdered of
\* conclave_tick.js) holds a debate in a terminal phase ended/results/closed.
C4_NoTerminalPhaseSelected ==
    SelectorApplied =>
        \A j \in 1..Len(fnOut.result) : ~InTerminalPhase(fnOut.result[j])

\* C5: no selector output holds a debate of known capacity that is full,
\* whatever its phase field.
C5_NoFullDebateSelected ==
    SelectorApplied =>
        \A j \in 1..Len(fnOut.result) : ~AtFullCapacity(fnOut.result[j])

(***************************************************************************)
(* Specification Spec: one tick of any of the scripts.  An action is the   *)
(* code between two awaits of a Conclave request: it issues the request,   *)
(* draws the response, and runs the handling of it, Telegram sends         *)
(* included, up to the next Conclave request or the exit.                  *)
(***************************************************************************)
Init ==
    /\ fnName = "tick"
    /\ fnIn = <<>>
    /\ fnOut = NotDone
    /\ variant \in Variants
    /\ env \in EnvsFor(variant)
    /\ pc = "start"
    /\ st = NoStatus
    /\ ordered = <<>>
    /\ idx = 0
    /\ tried = 0
    /\ fullCount = 0
    /\ joinLog = <<>>
    /\ allocLog = <<>>
    /\ apiLog = <<>>
    /\ notes = <<>>
    /\ exitCode = -1
    /\ okLog = <<>>
    /\ tickEnded = FALSE
    /\ console = StartLines(variant)

\* part_003 tickEnd(status): what console holds after the call.
TickEndLines(ended, lines, status) ==
    IF ended THEN lines ELSE Append(lines, "tick_end status=" \o status)

tickEnd(status) ==
    /\ tickEnded' = TRUE
    /\ console' = TickEndLines(tickEnded, console, status)

\* Mutant of ExitVia: process.exit(0) without the tickEnd("ok") before it.
ExitVia_NoTickEnd(nextPc) == UNCHANGED <<tickEnded, console>>

\* part_003 calls tickEnd("ok") ahead of every process.exit(0) of main.
ExitVia(nextPc) ==
    IF variant = "p003" /\ nextPc = "done" THEN tickEnd("ok")
    ELSE UNCHANGED <<tickEnded, console>>

\* await tgSend(...): the send is logged; a non-OK answer of Telegram makes
\* tgSend throw, which lands in the top-level handler.
Send(kind, ok, nextPc, nextExit) ==
    /\ notes' = Append(notes, [kind |-> kind, ok |-> ok])
    /\ pc' = IF ok THEN nextPc ELSE "catch"
    /\ exitCode' = IF ok THEN nextExit ELSE exitCode
    /\ ExitVia(IF ok THEN nextPc ELSE "catch")

\* No notification: straight to the next request or to process.exit.
Quiet(nextPc, nextExit) ==
    /\ notes' = notes
    /\ pc' = nextPc
    /\ exitCode' = nextExit
    /\ ExitVia(nextPc)

\* Where the run goes once the three mandatory variables were read.
AfterEnv(v, e) ==
    IF v = "p001a" /\ e.ping THEN "ping"
    ELSE IF v \in {"v2", "p003"} \/ (v = "p001b" /\ e.lowBalValid) THEN "balance"
    ELSE "status"

\* mustGetEnv x 3.  The third script of conclave_tick.js catches the throw
\* itself and exits 1; everywhere else it rejects the main promise.
EnvCheck ==
    /\ pc = "start"
    /\ IF EnvComplete(env) THEN pc' = AfterEnv(variant, env) /\ exitCode' = exitCode
       ELSE IF variant = "v3" THEN pc' = "done" /\ exitCode' = 1
       ELSE pc' = "catch" /\ exitCode' = exitCode
    /\ UNCHANGED <<fnVars, okLog, tickEnded, console, variant, env, st, ordered, idx, tried, fullCount,
                   joinLog, allocLog, apiLog, notes>>

\* part_001 (first script): if (ping) await tgSend(heartbeat)
Ping ==
    /\ pc = "ping"
    /\ \E ok \in BOOLEAN : Send("PING", ok, "status", exitCode)
    /\ UNCHANGED <<fnVars, okLog, variant, env, st, ordered, idx, tried, fullCount,
                   joinLog, allocLog, apiLog>>

\* GET /balance.  low: the body holds a balance under the threshold.
Balance ==
    /\ pc = "balance"
    /\ apiLog' = Append(apiLog, "GET /balance")
    /\ \E out \in {"throw", "low", "fine"}, ok \in BOOLEAN :
          IF out = "throw" THEN Quiet("catch", exitCode)
          ELSE IF out = "low" /\ variant \in {"v2", "p001b"}
               THEN Send("LOW_BALANCE", ok, "status", exitCode)
          ELSE Quiet(IF variant = "p003" /\ env.dailyDue THEN "daily" ELSE "status", exitCode)
    /\ UNCHANGED <<fnVars, okLog, variant, env, st, ordered, idx, tried, fullCount, joinLog, allocLog>>

\* part_003: the daily summary, a second GET /status and one message
DailySummary ==
    /\ pc = "daily"
    /\ apiLog' = Append(apiLog, "GET /status")
    /\ \E thrown \in BOOLEAN, ok \in BOOLEAN :
          IF thrown THEN Quiet("catch", exitCode)
          ELSE Send("DAILY_BALANCE", ok, "status", exitCode)
    /\ UNCHANGED <<fnVars, okLog, variant, env, st, ordered, idx, tried, fullCount, joinLog, allocLog>>

\* const inGame = ..., per script
InGameOf(v, b) ==
    CASE v = "v2" -> b.inGame = "true" \/ b.inDebate = "true"
      [] v = "p003" -> IF b.inGame # "unset" THEN b.inGame = "true" ELSE b.inDebate = "true"
      [] OTHER -> b.inDebate = "true"

\* const phase = ..., per script
PhaseOf(v, b) ==
    CASE v \in {"v2", "p001b"} -> ToLower(Trim(b.phase))
      [] v = "v3" -> b.phase
      [] OTHER -> ToLower(b.phase)

\* The allocation body a script builds from the ideas of the status body,
\* tabulated over the ideas lists and the environments of a tick.
AllocBodies ==
    [v \in {"v2", "p001b", "p003"}, e \in UNION {EnvsFor(w) : w \in Variants}, l \in TickIdeaLists |->
        CASE v = "v2" -> buildAllocations(l, strEnv(e.ticker, "SMOKE"), e.selfPct10)
          [] v = "p001b" -> allocateEvenly(normalizeIdeas(l), MaxIdeasEvenly)
          [] v = "p003" -> buildAutoAllocations(l, e.ticker, e.selfPct10)]

AllocBodyOf(v, e, b) ==
    IF v \in {"v2", "p001b", "p003"} THEN AllocBodies[v, e, b.ideas] ELSE Null

\* The branch a script takes once inGame, phase and the allocation body are
\* computed from a JSON status body: the next request (or "done") and the
\* notification it sends on the way ("": none).
Branch(next, note) == [next |-> next, note |-> note]

\* Mutant of AllocateBranch: the null test of the builder's result is dropped.
AllocateBranch_IgnoresNull(body) == Branch("allocate", "")

\* if (!allocBody) { ERR notification; exit } else POST /allocate
AllocateBranch(body) ==
    IF body.isNull THEN Branch("done", "ERR_alloc_build") ELSE Branch("allocate", "")

\* Mutant of BranchFor: the branch is chosen by the phase alone.
BranchFor_PhaseOnly(v, inGame, phase, body, view) ==
    IF phase = "allocation" THEN AllocateBranch(body) ELSE Branch("debates", "")

BranchFor(v, inGame, phase, body, view) ==
    CASE v \in {"v1", "p000", "p001a", "p005"} ->
            IF ~inGame THEN Branch("debates", "")
            ELSE IF phase = "allocation" THEN Branch("done", "APPROVAL")
            ELSE Branch("done", "")
      [] v = "v3" ->
            IF ~inGame THEN Branch("debates", "")
            ELSE IF phase = "allocation" THEN Branch("done", "APPROVAL")
            ELSE Branch("pass", "")
      [] v = "v2" ->
            IF inGame /\ phase = "allocation" THEN AllocateBranch(body)
            ELSE IF inGame THEN Branch("done", "")
            ELSE Branch("debates", "")
      [] v = "p001b" ->
            IF ~inGame THEN Branch("debates", "")
            ELSE IF phase = "allocation" THEN AllocateBranch(body)
            ELSE Branch("done", "")
      [] v = "p003" ->
            IF inGame /\ phase \in {"debate", "proposal", "propose"}
            THEN Branch(IF RefineDue(view) THEN "refine"
                        ELSE IF CommentDue(view) THEN "comment" ELSE "done", "")
            ELSE IF ~inGame THEN Branch("debates", "")
            ELSE IF phase = "allocation" THEN AllocateBranch(body)
            ELSE Branch("done", "")

\* What the run keeps of a JSON status body, with the branch it takes.
StatusPlan(v, inGame, phase, body, b, branch) ==
    [next |-> branch.next,
     note |-> branch.note,
     exit |-> IF branch.next = "done" THEN 0 ELSE -1,
     st |-> [inGame |-> inGame,
             phase |-> phase,
             inGameField |-> b.inGame,
             inDebateField |-> b.inDebate,
             allocBody |-> IF branch.next = "allocate" THEN body ELSE Null,
             refineDue |-> v = "p003" /\ RefineDue(b.view),
             commentDue |-> v = "p003" /\ CommentDue(b.view)]]

StatusPlans(v, e, b) ==
    {StatusPlan(v, InGameOf(v, b), PhaseOf(v, b), body, b,
                BranchFor(v, InGameOf(v, b), PhaseOf(v, b), body, b.view)) :
        body \in {AllocBodyOf(v, e, b)}}

\* GET /status and the branching on it.
Status ==
    /\ pc = "status"
    /\ apiLog' = Append(apiLog, "GET /status")
    /\ \E r \in StatusResponses, ok \in BOOLEAN :
          IF r.status = 0 THEN Quiet("catch", exitCode) /\ st' = st
          ELSE IF r.status # 200 \/ ~r.json
               THEN Send("ERR_status", ok, "done", 0) /\ st' = st
          ELSE \E plan \in StatusPlans(variant, env, r.body) :
                   /\ st' = plan.st
                   /\ IF plan.note # "" THEN Send(plan.note, ok, plan.next, plan.exit)
                      ELSE Quiet(plan.next, plan.exit)
    /\ UNCHANGED <<fnVars, okLog, variant, env, ordered, idx, tried, fullCount, joinLog, allocLog>>

\* part_003: POST /refine
Refine ==
    /\ pc = "refine"
    /\ apiLog' = Append(apiLog, "POST /refine")
    /\ \E status \in {0, 200, 500}, ok \in BOOLEAN :
          /\ okLog' = IF status = 200 THEN Append(okLog, "refine") ELSE okLog
          /\ IF status = 0 THEN Quiet("catch", exitCode)
             ELSE IF status # 200 THEN Send("ERR_refine", ok, "done", 0)
             ELSE IF st.commentDue THEN Quiet("comment", exitCode)
             ELSE Quiet("done", 0)
    /\ UNCHANGED <<fnVars, variant, env, st, ordered, idx, tried, fullCount, joinLog, allocLog>>

\* part_003: POST /comment
Comment ==
    /\ pc = "comment"
    /\ apiLog' = Append(apiLog, "POST /comment")
    /\ \E status \in {0, 200, 500}, ok \in BOOLEAN :
          /\ okLog' = IF status = 200 THEN Append(okLog, "comment") ELSE okLog
          /\ IF status = 0 THEN Quiet("catch", exitCode)
             ELSE IF status # 200 THEN Send("ERR_comment", ok, "done", 0)
             ELSE Quiet("done", 0)
    /\ UNCHANGED <<fnVars, variant, env, st, ordered, idx, tried, fullCount, joinLog, allocLog>>

\* GET /debates, the empty-list exit, and the ordering of the candidates.
DebatesWith(R) ==
    /\ pc = "debates"
    /\ apiLog' = Append(apiLog, "GET /debates")
    /\ \E r \in R, ok \in BOOLEAN :
          IF r.status = 0
          THEN Quiet("catch", exitCode) /\ ordered' = ordered /\ idx' = idx
          ELSE IF r.status # 200 \/ ~r.json
          THEN Send("ERR_debates", ok, "done", 0) /\ ordered' = ordered /\ idx' = idx
          ELSE IF Len(r.debates) = 0
          THEN Quiet("done", 0) /\ ordered' = ordered /\ idx' = idx
          ELSE IF variant = "v3"
          THEN Quiet("joinFirst", exitCode) /\ ordered' = r.debates /\ idx' = 1
          ELSE Quiet("join", exitCode) /\ ordered' = OrderedFor(variant, r.debates) /\ idx' = 1
    /\ UNCHANGED <<fnVars, okLog, variant, env, st, tried, fullCount, joinLog, allocLog>>

Debates == DebatesWith(DebatesResponses)

\* The index of the next candidate the loop issues a join for, or 0 when the
\* loop runs out: `idx < maxAttempts` (part_003: `idx < ordered.length &&
\* tried < maxAttempts`), with the `continue` tests before the request.
NextCandidate(v, e, ord, i, t) ==
    LET maxAttempts == Min(AttemptCap(v, e), Len(ord))
        cands == {j \in i..Len(ord) :
                     /\ (IF v = "p003" THEN t < maxAttempts ELSE j <= maxAttempts)
                     /\ Attemptable(v, ord[j])}
    IN  IF cands = {} THEN 0 ELSE CHOOSE j \in cands : \A k \in cands : j <= k

\* Mutant of JoinOutcome: the loop moves on after an accepted join as well.
JoinOutcome_NoExitOnAccept(v, r) ==
    IF r.status = 0 THEN "throw"
    ELSE IF r.status = 200 \/ SoftReject(v, r) THEN "soft"
    ELSE "hard"

\* What the loop does with the outcome of a join request: the throw of
\* httpJson, the exit on 200, the `continue` on a soft rejection, or the ERR
\* notification and exit.
JoinOutcome(v, r) ==
    IF r.status = 0 THEN "throw"
    ELSE IF r.status = 200 THEN "accept"
    ELSE IF SoftReject(v, r) THEN "soft"
    ELSE "hard"

\* One pass of the join loop that reaches the request: POST /debates/:id/join
\* and the handling of the response.
JoinAttemptWith(R) ==
    /\ pc = "join"
    /\ NextCandidate(variant, env, ordered, idx, tried) # 0
    /\ LET j == NextCandidate(variant, env, ordered, idx, tried)
           d == ordered[j]
       IN  /\ apiLog' = Append(apiLog, "POST /join")
           /\ \E r \in R, ok \in BOOLEAN :
                 /\ joinLog' = Append(joinLog, [id |-> d.id, status |-> r.status,
                                                err |-> safeErrMsg(r),
                                                outcome |-> JoinOutcome(variant, r)])
                 /\ okLog' = IF r.status = 200 THEN Append(okLog, "join") ELSE okLog
                 /\ tried' = IF variant = "p003" THEN tried + 1 ELSE tried
                 /\ IF JoinOutcome(variant, r) = "throw"
                    THEN Quiet("catch", exitCode) /\ idx' = j /\ fullCount' = fullCount
                    ELSE IF JoinOutcome(variant, r) = "accept"
                    THEN /\ IF NotifiesJoin(variant) THEN Send("ACT_join", ok, "done", 0)
                            ELSE Quiet("done", 0)
                         /\ idx' = j /\ fullCount' = fullCount
                    ELSE IF JoinOutcome(variant, r) = "soft"
                    THEN /\ Quiet("join", exitCode)
                         /\ idx' = j + 1
                         /\ fullCount' = IF variant = "p000" THEN fullCount + 1 ELSE fullCount
                    ELSE Send("ERR_join", ok, "done", 0) /\ idx' = j /\ fullCount' = fullCount
    /\ UNCHANGED <<fnVars, variant, env, st, ordered, allocLog>>

\* The responses a join request of a tick can meet: those of the service, and
\* the fetch that rejects.
TickJoinResponses == JoinResponses \cup {NetworkError}

JoinAttempt == JoinAttemptWith(TickJoinResponses)

\* The loop ran out of candidates: process.exit(0), after the message of
\* part_000 when every attempt was rejected as full.
JoinLoopEnd ==
    /\ pc = "join"
    /\ NextCandidate(variant, env, ordered, idx, tried) = 0
    /\ \E ok \in BOOLEAN :
          IF variant = "p000" /\ fullCount = Min(AttemptCap(variant, env), Len(ordered))
          THEN Send("INFO_all_full", ok, "done", 0)
          ELSE Quiet("done", 0)
    /\ UNCHANGED <<fnVars, okLog, variant, env, st, ordered, idx, tried, fullCount,
                   joinLog, allocLog, apiLog>>

\* conclave_tick.js (third script): one join, for debates[0], whatever it is
JoinFirst ==
    /\ pc = "joinFirst"
    /\ apiLog' = Append(apiLog, "POST /join")
    /\ \E r \in JoinResponses \cup {NetworkError}, ok \in BOOLEAN :
          /\ joinLog' = Append(joinLog, [id |-> ordered[1].id, status |-> r.status,
                                         err |-> safeErrMsg(r),
                                         outcome |-> IF r.status = 0 THEN "throw"
                                                     ELSE IF r.status # 200 THEN "hard"
                                                     ELSE "accept"])
          /\ okLog' = IF r.status = 200 THEN Append(okLog, "join") ELSE okLog
          /\ IF r.status = 0 THEN Quiet("catch", exitCode)
             ELSE IF r.status # 200 THEN Send("ERR_join", ok, "done", 0)
             ELSE Send("ACT_join", ok, "done", 0)
    /\ UNCHANGED <<fnVars, variant, env, st, ordered, idx, tried, fullCount, allocLog>>

\* POST /allocate with the body built from the status.
Allocate ==
    /\ pc = "allocate"
    /\ apiLog' = Append(apiLog, "POST /allocate")
    /\ allocLog' = Append(allocLog, st.allocBody)
    /\ \E status \in {0, 200, 400}, ok \in BOOLEAN :
          /\ okLog' = IF status = 200 THEN Append(okLog, "allocate") ELSE okLog
          /\ IF status = 0 THEN Quiet("catch", exitCode)
             ELSE IF status # 200 THEN Send("ERR_allocate", ok, "done", 0)
             ELSE IF variant = "p003" THEN Send("ACT_allocate", ok, "done", 0)
             ELSE Quiet("done", 0)
    /\ UNCHANGED <<fnVars, variant, env, st, ordered, idx, tried, fullCount, joinLog>>

\* conclave_tick.js (third script): POST /pass
Pass ==
    /\ pc = "pass"
    /\ apiLog' = Append(apiLog, "POST /pass")
    /\ \E status \in {0, 200, 500}, ok \in BOOLEAN :
          /\ okLog' = IF status = 200 THEN Append(okLog, "pass") ELSE okLog
          /\ IF status = 0 THEN Quiet("catch", exitCode)
             ELSE IF status # 200 THEN Send("ERR_pass", ok, "done", 0)
             ELSE Send("ACT_pass", ok, "done", 0)
    /\ UNCHANGED <<fnVars, variant, env, st, ordered, idx, tried, fullCount, joinLog, allocLog>>

\* Mutant of HandlerExitCode: no handler ends the process with a failure code.
HandlerExitCode_AlwaysZero(v) == 0

\* The exit code a run ends with after its top-level handler ran:
\* process.exit(1), except part_003, whose handler returns.
HandlerExitCode(v) == IF v = "p003" THEN 0 ELSE 1

\* The top-level handler: a best-effort message when both Telegram variables
\* are set (its failure is swallowed), then the end of the process.
Catch ==
    /\ pc = "catch"
    /\ IF env.bot /\ env.chat
       THEN \E ok \in BOOLEAN : notes' = Append(notes, [kind |-> "ERR_tick_failed", ok |-> ok])
       ELSE notes' = notes
    /\ pc' = "failed"
    /\ exitCode' = HandlerExitCode(variant)
    /\ IF variant = "p003" THEN tickEnd("failed") ELSE UNCHANGED <<tickEnded, console>>
    /\ UNCHANGED <<fnVars, okLog, variant, env, st, ordered, idx, tried, fullCount,
                   joinLog, allocLog, apiLog>>

Next ==
    \/ EnvCheck
    \/ Ping
    \/ Balance
    \/ DailySummary
    \/ Status
    \/ Refine
    \/ Comment
    \/ Debates
    \/ JoinAttempt
    \/ JoinLoopEnd
    \/ JoinFirst
    \/ Allocate
    \/ Pass
    \/ Catch

Spec == Init /\ [][Next]_vars

(***************************************************************************)
(* Properties of the tick.                                                 *)
(***************************************************************************)
Terminated == pc \in {"done", "failed"}

NoteKinds(ns) == [j \in 1..Len(ns) |-> ns[j].kind]
CountKind(ns, kind) == Cardinality({j \in 1..Len(ns) : ns[j].kind = kind})

C3_WitnessNull ==
    /\ variant = "p003" /\ pc = "done" /\ exitCode = 0
    /\ st.inGame /\ st.phase = "allocation" /\ st.allocBody.isNull
    /\ NoteKinds(notes) = <<"ERR_alloc_build">>
    /\ allocLog = <<>>

\* Is the sequence a of identifiers drawn, in order, from the ids of ds?
RECURSIVE InRankedOrder(_, _)
InRankedOrder(a, ds) ==
    IF a = <<>> THEN TRUE
    ELSE IF ds = <<>> THEN FALSE
    ELSE IF Head(a) = Head(ds).id THEN InRankedOrder(Tail(a), Tail(ds))
    ELSE InRankedOrder(a, Tail(ds))

JoinIds == [j \in 1..Len(joinLog) |-> joinLog[j].id]

\* C6: in every join loop no join request follows one that returned 200: the
\* candidates are attempted in ranked order, only the last attempt of a run
\* can be the accepted one, and after it the loop is left.
C6_NoJoinAfterAccept ==
    /\ \A j \in 1..Len(joinLog) : joinLog[j].status = 200 => j = Len(joinLog)
    /\ (joinLog # <<>> /\ joinLog[Len(joinLog)].status = 200) => pc \in {"done", "catch", "failed"}
    /\ InRankedOrder(JoinIds, ordered)

\* C6 witness: two candidates soft-rejected, the third accepted, three
\* attempts in all, and the run over.
C6_Witness ==
    /\ variant = "p003" /\ pc = "done" /\ exitCode = 0
    /\ Len(joinLog) = 3
    /\ joinLog[1].status # 200 /\ joinLog[2].status # 200 /\ joinLog[3].status = 200

\* The error message of a logged join response names a capacity or
\* acceptance rejection as the specification words it.
SaysFullOrNotAccepting(entry) ==
    Includes(ToLower(entry.err), "full") \/ Includes(ToLower(entry.err), "not accepting")

\* C7: in the part_003 join loop a non-200 response is soft exactly when its
\* message contains "full" or "not accepting" (no notification, the loop goes
\* on); any other failure response is hard: it ends the joins of the run with
\* one ERR notification.
C7_SoftOnlyFullOrNotAccepting ==
    variant = "p003" =>
        \A j \in 1..Len(joinLog) :
            (joinLog[j].status \notin {0, 200}) =>
                IF SaysFullOrNotAccepting(joinLog[j])
                THEN joinLog[j].outcome = "soft"
                     /\ (j = Len(joinLog) => CountKind(notes, "ERR_join") = 0)
                ELSE joinLog[j].outcome = "hard"
                     /\ j = Len(joinLog) /\ pc # "join"
                     /\ CountKind(notes, "ERR_join") = 1

\* Notifications that precede GET /status (heartbeat and balance messages).
PreludeKinds == {"PING", "LOW_BALANCE", "DAILY_BALANCE"}
LoopNotes == SelectSeq(notes, LAMBDA n : n.kind \notin PreludeKinds)

\* The notifications that report an error, and those that follow an accepted
\* join or a remote error the script handles itself.
ErrKinds ==
    {"ERR_status", "ERR_debates", "ERR_join", "ERR_allocate", "ERR_alloc_build",
     "ERR_comment", "ERR_refine", "ERR_pass", "ERR_tick_failed"}
HandledKinds == (ErrKinds \ {"ERR_tick_failed"}) \cup {"ACT_join"}

\* C8: in every join-loop script a run whose join attempts were all rejected
\* as full ends with exit code 0 and without a notification.
C8_AllFullIsSilent ==
    (variant \in LoopVariants /\ Terminated /\ joinLog # <<>>
        /\ \A j \in 1..Len(joinLog) :
              joinLog[j].outcome = "soft" /\ Includes(ToLower(joinLog[j].err), "full"))
    => (exitCode = 0 /\ LoopNotes = <<>>)

\* C9: in part_003 a run that reached the top-level handler ends with a
\* non-zero exit code (after a best-effort notification when Telegram is
\* configured), and exit code 0 belongs to runs that never reached it.
C9_HandlerExitsNonZero ==
    variant = "p003" =>
        /\ pc = "failed" => exitCode # 0
        /\ (pc = "failed" /\ env.bot /\ env.chat) => CountKind(notes, "ERR_tick_failed") = 1
        /\ exitCode = 0 => pc = "done"

\* C10: in the conclave_tick.js scripts a run with CONCLAVE_TOKEN,
\* TELEGRAM_BOT_TOKEN or TELEGRAM_CHAT_ID missing issues no Conclave request
\* and ends with exit code 1.
C10_MissingEnvIsFatal ==
    (variant \in {"v1", "v2", "v3"} /\ ~EnvComplete(env)) =>
        /\ apiLog = <<>>
        /\ exitCode \in {-1, 1}
        /\ Terminated => exitCode = 1
        /\ pc \in {"start", "catch", "done", "failed"}

\* C10 witness: the second script without TELEGRAM_CHAT_ID, ended with code 1.
C10_Witness ==
    /\ variant = "v2" /\ env.token /\ env.bot /\ ~env.chat
    /\ pc = "failed" /\ exitCode = 1 /\ apiLog = <<>>

(***************************************************************************)
(* Specification SpecLoop: the join loop over a long /debates list.  The   *)
(* run starts after GET /status answered "not in a game"; the service      *)
(* accepts, rejects as full, or fails.                                     *)
(***************************************************************************)
MaxLongDebates == 11

LongDebate(i) == TickDebate(i, "propose", 0, 0, "oracle feed")

\* Debates part_003 passes over: no id, phase ended or results, or a text
\* that classifyDebate does not recognise.
PassedOverKinds ==
    { TickDebate(0, "propose", 0, 0, "oracle feed"),
      TickDebate(1, "ended", 0, 0, "oracle feed"),
      TickDebate(1, "results", 0, 0, "oracle feed"),
      TickDebate(1, "propose", 0, 0, "weather") }

\* Lists of 1..MaxLongDebates debates with distinct ids, all of them
\* candidates, or with the first one replaced by a debate to pass over.
LongDebateLists ==
    {[j \in 1..n |-> IF j = 1 THEN h ELSE LongDebate(j)] :
        n \in 1..MaxLongDebates, h \in PassedOverKinds \cup {LongDebate(1)}}

LongDebatesResponses ==
    { [status |-> 0, json |-> FALSE, debates |-> <<>>],
      [status |-> 500, json |-> TRUE, debates |-> <<>>] }
    \cup {[status |-> 200, json |-> TRUE, debates |-> l] : l \in LongDebateLists}

LoopJoinResponses ==
    { [status |-> 200, json |-> TRUE,  error |-> "", message |-> "", text |-> "joined"],
      [status |-> 400, json |-> TRUE,  error |-> "Debate is FULL", message |-> "", text |-> "json"],
      [status |-> 502, json |-> FALSE, error |-> "", message |-> "", text |-> ""],
      NetworkError }

\* numEnv("CONCLAVE_MAX_JOIN_ATTEMPTS", 5): unset, "1" or "50"
LoopEnvs(v) ==
    IF v = "v2" THEN {[EnvDefault EXCEPT !.maxJoin = m] : m \in {1, 5, 50}} ELSE {EnvDefault}

\* The Conclave requests a script has issued when it reaches GET /debates.
PreludeLog(v) ==
    IF v \in {"v2", "p001b", "p003"} THEN <<"GET /balance", "GET /status">> ELSE <<"GET /status">>

InitLoop ==
    /\ fnName = "tick"
    /\ fnIn = <<>>
    /\ fnOut = NotDone
    /\ variant \in LoopVariants
    /\ env \in LoopEnvs(variant)
    /\ pc = "debates"
    /\ st = NoStatus
    /\ ordered = <<>>
    /\ idx = 0
    /\ tried = 0
    /\ fullCount = 0
    /\ joinLog = <<>>
    /\ allocLog = <<>>
    /\ apiLog = PreludeLog(variant)
    /\ notes = <<>>
    /\ exitCode = -1
    /\ okLog = <<>>
    /\ tickEnded = FALSE
    /\ console = StartLines(variant)

DebatesLong == DebatesWith(LongDebatesResponses)

JoinAttemptLong == JoinAttemptWith(LoopJoinResponses)

NextLoop ==
    \/ DebatesLong
    \/ JoinAttemptLong
    \/ JoinLoopEnd
    \/ Catch

SpecLoop == InitLoop /\ [][NextLoop]_vars

\* C11: in every script and for every setting of the optional environment
\* values, one run makes at most 10 join requests, however long the list of
\* debates is.
C11_AtMostTenJoins == Len(joinLog) <= 10

(***************************************************************************)
(* Specification SpecText: the text functions as pure functions.           *)
(***************************************************************************)
\* Texts are concatenations of up to MaxFragments of these fragments.
TextFragments ==
    {"Oracle", "ATTEST", "identity", "Vote", "hammer", "ZK", "cross", "-chain",
     " ", "x", "Market", "data", " feed"}
MaxFragments == 3

RECURSIVE TextsUpTo(_, _)
TextsUpTo(F, n) ==
    IF n = 0 THEN {""}
    ELSE TextsUpTo(F, n - 1) \cup {t \o f : t \in TextsUpTo(F, n - 1), f \in F}

ClassifyInputs == {Str(t) : t \in TextsUpTo(TextFragments, MaxFragments)} \cup {JsNull, JsUndefined}

\* The categories in the order classifyDebate tests them, with their keywords.
Categories == <<"oracle", "identity", "governance", "markets", "interop", "privacy">>
CategoryKeywords ==
    << {"oracle", "attestation", "attest", "data feed", "offchain", "onchain data"},
       {"identity", "reputation", "sybil", "personhood", "credential"},
       {"governance", "vote", "voting", "dao", "delegat"},
       {"market", "auction", "orderbook", "amm", "liquidity", "pricing"},
       {"bridge", "cross-chain", "messaging", "interop"},
       {"privacy", "zk", "zero knowledge", "confidential"} >>

\* Briefs: lines of 150 and 3000 characters, blank lines, short lines.
RECURSIVE Repeat(_, _)
Repeat(s, n) ==
    IF n = 0 THEN ""
    ELSE IF n % 2 = 0 THEN LET half == Repeat(s, n \div 2) IN half \o half
    ELSE s \o Repeat(s, n - 1)
BriefFragments == {"Oracle price feed", "\n", "  ", "x", Repeat("0123456789", 15), Repeat("abcdefghij", 300)}
BriefInputs == {Str(t) : t \in TextsUpTo(BriefFragments, MaxFragments)} \cup {JsNull, JsUndefined}
CategoryInputs == {Categories[i] : i \in 1..Len(Categories)} \cup {"unknown", "weather"}

\* Themes (keywords, plain words, digits and symbols) and seeds (d.id).
ThemeFragments == {"provenance", "Goods", "Alpha ", "beta-", "c3po ", "#!", " ", "won"}
ThemeInputs == {Str(t) : t \in TextsUpTo(ThemeFragments, MaxFragments)} \cup {JsNull, JsUndefined}
SeedInputs == {Str(""), Str("  "), Str("7"), Str("debate-42"), Str("zzzzzzzzzz~~"), JsNull}

InitText ==
    /\ TickIdle
    /\ fnOut = NotDone
    /\ \/ /\ fnName = "classifyDebate"
          /\ fnIn \in [text : ClassifyInputs]
       \/ /\ fnName = "buildProposal"
          /\ fnIn \in [text : BriefInputs, category : CategoryInputs]
       \/ /\ fnName = "makeTickerFromTheme"
          /\ fnIn \in [theme : ThemeInputs, seed : SeedInputs]

ApplyClassifyDebate ==
    /\ fnName = "classifyDebate"
    /\ fnOut = NotDone
    /\ fnOut' = Done(classifyDebate(fnIn.text))
    /\ UNCHANGED <<fnName, fnIn, tickVars>>

ApplyBuildProposal ==
    /\ fnName = "buildProposal"
    /\ fnOut = NotDone
    /\ fnOut' = Done(buildProposal(fnIn.text, fnIn.category))
    /\ UNCHANGED <<fnName, fnIn, tickVars>>

ApplyMakeTickerFromTheme ==
    /\ fnName = "makeTickerFromTheme"
    /\ fnOut = NotDone
    /\ fnOut' = Done(makeTickerFromTheme(fnIn.theme, fnIn.seed))
    /\ UNCHANGED <<fnName, fnIn, tickVars>>

NextText ==
    \/ ApplyClassifyDebate
    \/ ApplyBuildProposal
    \/ ApplyMakeTickerFromTheme

SpecText == InitText /\ [][NextText]_vars

\* w occurs in t at some offset, character by character.
IsSubstring(w, t) ==
    \E off \in 0..(Len(t) - Len(w)) : \A k \in 1..Len(w) : CharAt(t, off + k) = CharAt(w, k)

MatchingCategories(t) ==
    {i \in 1..Len(Categories) : \E w \in CategoryKeywords[i] : IsSubstring(w, t)}

\* C12: classifyDebate returns one of the six categories or unknown; it is
\* the first category, in the fixed order, with a keyword that is a substring
\* of the lower-cased text, and unknown exactly when no keyword occurs.
C12_ClassifyTotalFirstMatch ==
    (fnName = "classifyDebate" /\ fnOut # NotDone) =>
        LET hits == MatchingCategories(StrLower(OrEmpty(fnIn.text)))
        IN  /\ fnOut.result \in {Categories[i] : i \in 1..Len(Categories)} \cup {"unknown"}
            /\ (fnOut.result = "unknown") <=> (hits = {})
            /\ hits # {} => fnOut.result = Categories[CHOOSE i \in hits : \A j \in hits : i <= j]

\* C12 witness: a text with keywords of two categories ("Market", "data feed")
\* in mixed case is classified by the earlier category.
C12_Witness ==
    /\ fnName = "classifyDebate" /\ fnOut # NotDone
    /\ fnIn.text = Str("Marketdata feed")
    /\ fnOut.result = "oracle"

C14_TickerTotal ==
    (fnName = "makeTickerFromTheme" /\ fnOut # NotDone) =>
        LET r == fnOut.result
            w == ThemeWords(fnIn.theme)
            picks == TickerPicks(JoinWords(w))
        IN  /\ Len(r) \in 3..6
            /\ \A i \in 1..Len(r) : \E k \in 1..26 : CharAt(r, i) = CharAt(UpperLetters, k)
            /\ picks # <<>> => r = picks[1]
            /\ (picks = <<>> /\ Len(w) >= 3) =>
                  r = CharAt(w[1], 1) \o CharAt(w[2], 1) \o CharAt(w[3], 1)
            /\ (picks = <<>> /\ Len(w) < 3) => Len(r) = 4

\* C14 witness: a symbol-only theme and the seed "debate-42": the hash
\* 31-polynomial of the seed, modulo 2^32, spells GIZC.
C14_Witness ==
    /\ fnName = "makeTickerFromTheme" /\ fnOut # NotDone
    /\ fnIn.theme = Str("#! #!")
    /\ fnIn.seed = Str("debate-42")
    /\ fnOut.result = "GIZC"

\* C14 witness of the initials: three plain words.
C14_WitnessInitials ==
    /\ fnName = "makeTickerFromTheme" /\ fnOut # NotDone
    /\ fnIn.theme = Str("Alpha beta-c3po ")
    /\ fnOut.result = "ABC"

\* C15: a run of the part_003 tick has at most one mutating request (join,
\* allocate, comment or refine) answered with status 200.
C15_AtMostOneAcceptedMutation ==
    variant = "p003" => Len(okLog) <= 1

\* C16: a part_003 run in which the join or the allocation was accepted with
\* status 200 and nothing failed, with CONCLAVE_NOTIFY_DAILY_BALANCE (the one
\* notification toggle part_003 reads) not in effect, ends without a message
\* to the operator.
C16_SuccessIsSilent ==
    (variant = "p003" /\ pc = "done" /\ ~env.dailyDue
        /\ okLog \in {<<"join">>, <<"allocate">>}
        /\ \A j \in 1..Len(notes) : notes[j].ok /\ notes[j].kind \notin ErrKinds)
    => LoopNotes = <<>>

\* C17: in the conclave_tick.js scripts a notification that Telegram answers
\* with a non-OK status, sent after an accepted join or after a handled
\* remote error, leaves the run ending with exit code 0.
C17_NotificationFireAndForget ==
    (variant \in {"v1", "v2", "v3"} /\ Terminated
        /\ \E j \in 1..Len(notes) :
              ~notes[j].ok /\ notes[j].kind \in HandledKinds)
    => exitCode = 0

\* C18: a run whose GET /status was answered with a status other than 200 or
\* with a body that is not JSON attempts exactly one ERR notification, issues
\* no mutating request and no GET /debates, and ends with exit code 0.
C18_StatusErrorStopsRun ==
    CountKind(notes, "ERR_status") >= 1 =>
        /\ Cardinality({j \in 1..Len(notes) : notes[j].kind \in ErrKinds}) = 1
        /\ \A j \in 1..Len(apiLog) : apiLog[j] \in {"GET /balance", "GET /status"}
        /\ okLog = <<>> /\ joinLog = <<>> /\ allocLog = <<>>
        /\ Terminated => exitCode = 0

(***************************************************************************)
(* Specification SpecBuild: buildAllocations of conclave_tick.js as a pure *)
(* function of the ideas list, the ticker and CONCLAVE_SELF_ALLOC_PCT.     *)
(***************************************************************************)
ActivityIdeaKinds ==
    { [NoIdea EXCEPT !.ideaId = 1, !.ticker = "NEO"],
      [NoIdea EXCEPT !.ideaId = 3],
      [NoIdea EXCEPT !.ideaId = 4, !.commentCount = 2],
      [NoIdea EXCEPT !.ideaId = 5, !.refineCount = 1],
      [NoIdea EXCEPT !.ticker = "XYZ"],
      [NoIdea EXCEPT !.ticker = "neo", !.commentCount = 1] }

MaxActivityIdeas == 3

MyTickerVals == {"", "neo", "SMOKE"}

\* CONCLAVE_SELF_ALLOC_PCT in tenths: -5, 0, 5, ..., 100 percent, and 5.7, 59.9
\* (unset or unparsable reads as the default 60).
BuildPctVals == {50 * k : k \in -1..20} \cup {57, 599}

InitBuild ==
    /\ TickIdle
    /\ fnOut = NotDone
    /\ fnName = "buildAllocations"
    /\ fnIn \in [ideas : SeqsUpTo(ActivityIdeaKinds, MaxActivityIdeas),
                 selfTicker : MyTickerVals, selfPct10 : BuildPctVals]

ApplyBuildAllocations ==
    /\ fnName = "buildAllocations"
    /\ fnOut = NotDone
    /\ fnOut' = Done(buildAllocations(fnIn.ideas, fnIn.selfTicker, fnIn.selfPct10))
    /\ UNCHANGED <<fnName, fnIn, tickVars>>

NextBuild == ApplyBuildAllocations

SpecBuild == InitBuild /\ [][NextBuild]_vars

\* C19: every non-null result of buildAllocations carries allocations that
\* obey the Conclave rules: at least 2 entries, every percentage > 0 and
\* <= 60, total exactly 100.
C19_BuildAllocationsValid ==
    (fnName = "buildAllocations" /\ fnOut.done /\ ~fnOut.result.isNull)
    => ValidAllocation(fnOut.result.allocations)

\* C20: when buildAutoAllocations identifies the self-owned idea (its ticker
\* equals CONCLAVE_SELF_TICKER) and the clamped selfPct is > 0, a non-null
\* result gives the self idea exactly min(60, max(0, floor(selfPct))) percent,
\* the units left over by the integer division going to the other ideas only.
C20_SelfShareExact ==
    (fnName = "buildAutoAllocations" /\ fnOut # NotDone /\ ~fnOut.result.isNull)
    => LET list == SelectSeq(fnIn.ideas, UsableIdea_p003)
           selfIdx == FindSelfIdx(list, ToUpper(Trim(fnIn.selfTicker)))
           pctSelf == Max(0, Min(MaxPct, Floor10(fnIn.selfPct10)))
           allocs == fnOut.result.allocations
       IN  (selfIdx # 0 /\ pctSelf > 0) =>
               /\ allocs[1].ideaId = IdeaIdOf_p003(list[selfIdx])
               /\ allocs[1].percentage = pctSelf
               /\ SumPct(SubSeq(allocs, 2, Len(allocs))) = 100 - pctSelf

(***************************************************************************)
(* Specification SpecRank: pickDebatesOrdered of conclave_tick.js over     *)
(* eligible debates of every phase tier and of low and high occupancy.     *)
(***************************************************************************)
RankPhases == {"", "propose", "debate", "allocation", "voting"}

\* <<playerCount, currentPlayers>>: empty, nearly empty, ten and eleven seated
RankOccupancies == {<<0, 0>>, <<4, 1>>, <<12, 10>>, <<0, 11>>}

RankDebateKinds ==
    {[id |-> 1, phase |-> p, playerCount |-> o[1], currentPlayers |-> o[2]] :
        p \in RankPhases, o \in RankOccupancies}

MaxRankDebates == 2

InitRank ==
    /\ TickIdle
    /\ fnOut = NotDone
    /\ fnName = "pickDebatesOrdered_v2"
    /\ fnIn \in [debates : SeqsUpTo(RankDebateKinds, MaxRankDebates)]

NextRank == ApplyPickDebatesOrdered_v2

SpecRank == InitRank /\ [][NextRank]_vars

\* Phase priority as the ranking states it: propose/proposal, then debate,
\* then allocation, then every other or absent phase.
PhaseTier(d) ==
    LET p == phaseNorm(d.phase)
    IN  IF p \in {"propose", "proposal"} THEN 4
        ELSE IF p = "debate" THEN 3
        ELSE IF p = "allocation" THEN 2
        ELSE 1

\* C21: in the output of pickDebatesOrdered (conclave_tick.js) a debate of a
\* higher phase priority never comes after one of a lower phase priority,
\* whatever the occupancy counts and the input order; within one phase
\* priority the fuller debate comes first.
C21_PhaseIsPrimaryKey ==
    (fnName = "pickDebatesOrdered_v2" /\ fnOut # NotDone) =>
        \A i, j \in 1..Len(fnOut.result) :
            i < j =>
                /\ PhaseTier(fnOut.result[i]) >= PhaseTier(fnOut.result[j])
                /\ PhaseTier(fnOut.result[i]) = PhaseTier(fnOut.result[j])
                      => Min(fnOut.result[i].currentPlayers, 10)
                             >= Min(fnOut.result[j].currentPlayers, 10)

(***************************************************************************)
(* Specification SpecRetry: one call of fetchWithRetry (part_003), as      *)
(* httpJson makes it.  fnOut holds the loop state: the attempt counter,    *)
(* the outcome of every fetch so far, lastErr, and how the call ended.     *)
(***************************************************************************)
\* httpJson: fetchWithRetry(url, opts, { retries: 3, baseDelayMs: 500 })
Retries == 3

\* What one fetch can do: answer with a status, or reject with a network error.
FetchOutcomes ==
    {[kind |-> "response", status |-> s, err |-> ""] : s \in {200, 404, 500, 503}}
    \cup {[kind |-> "reject", status |-> 0, err |-> e] : e \in {"ECONNRESET", "ETIMEDOUT"}}

\* let lastErr = null; attempt = 0
FreshCall ==
    [done |-> FALSE, attempt |-> 0, fetches |-> <<>>, lastErr |-> "",
     ended |-> "running", value |-> 0]

InitRetry ==
    /\ TickIdle
    /\ fnName = "fetchWithRetry"
    /\ fnIn = [retries |-> Retries]
    /\ fnOut = FreshCall

\* Mutant of ShouldRetry: the `attempt < retries` test is dropped.
ShouldRetry_NoAttemptTest(status, attempt, retries) == status >= 500

\* if (res.status >= 500 && attempt < retries) { sleep; continue; }
ShouldRetry(status, attempt, retries) == status >= 500 /\ attempt < retries

\* The loop state after `continue` or after the catch block's sleep: attempt++,
\* and when the loop condition fails, `throw lastErr || new Error(...)`.
AfterBackoff(s, fetched, lastErr, retries) ==
    IF s.attempt + 1 <= retries
    THEN [s EXCEPT !.attempt = s.attempt + 1, !.fetches = fetched, !.lastErr = lastErr]
    ELSE [s EXCEPT !.attempt = s.attempt + 1, !.fetches = fetched, !.lastErr = lastErr,
                   !.done = TRUE, !.ended = "thrown",
                   !.value = IF lastErr # "" THEN lastErr ELSE "FETCH_RETRY_EXHAUSTED"]

\* One pass of the for loop on loop state s, the fetch ending as o.
FetchStep(s, o, retries) ==
    LET fetched == Append(s.fetches, o)
    IN  IF o.kind = "response"
        THEN IF ShouldRetry(o.status, s.attempt, retries)
             THEN AfterBackoff(s, fetched, s.lastErr, retries)
             ELSE [s EXCEPT !.fetches = fetched, !.done = TRUE,
                            !.ended = "returned", !.value = o.status]
        ELSE IF s.attempt >= retries
             THEN [s EXCEPT !.fetches = fetched, !.lastErr = o.err, !.done = TRUE,
                            !.ended = "thrown", !.value = o.err]
             ELSE AfterBackoff(s, fetched, o.err, retries)

\* One pass of the for loop: await fetch(url, opts) and what follows it.
FetchAttempt ==
    /\ fnName = "fetchWithRetry"
    /\ ~fnOut.done
    /\ fnOut.attempt <= fnIn.retries
    /\ \E o \in FetchOutcomes : fnOut' = FetchStep(fnOut, o, fnIn.retries)
    /\ UNCHANGED <<fnName, fnIn, tickVars>>

NextRetry == FetchAttempt

\* fetch settles and sleep resolves: the loop keeps taking its next pass.
SpecRetry == InitRetry /\ [][NextRetry]_vars /\ WF_vars(FetchAttempt)

\* The fetch log of a call is well-formed: at most retries+1 fetches; every
\* fetch but the last was a network error or a status >= 500; a finished call
\* returned its last fetch's response (below 500, or any status on attempt
\* retries+1) or threw its last fetch's network error on attempt retries+1.
RetryShape ==
    LET f == fnOut.fetches
        n == Len(f)
    IN  /\ n <= fnIn.retries + 1
        /\ \A j \in 1..(n - 1) : f[j].kind = "reject" \/ f[j].status >= 500
        /\ ~fnOut.done =>
              /\ n <= fnIn.retries
              /\ \A j \in 1..n : f[j].kind = "reject" \/ f[j].status >= 500
        /\ fnOut.done =>
              /\ n >= 1
              /\ fnOut.ended \in {"returned", "thrown"}
              /\ fnOut.ended = "returned" =>
                    /\ f[n].kind = "response" /\ fnOut.value = f[n].status
                    /\ f[n].status >= 500 => n = fnIn.retries + 1
              /\ fnOut.ended = "thrown" =>
                    /\ f[n].kind = "reject" /\ fnOut.value = f[n].err
                    /\ n = fnIn.retries + 1

\* C22: a call of fetchWithRetry makes at most retries+1 = 4 fetches and
\* always completes, returning a response or throwing the last network
\* error; a status below 500 is returned at once, a status >= 500 is retried
\* while attempts remain and returned as a response on the last attempt.
C22_RetryBounded ==
    /\ [](fnName = "fetchWithRetry" => RetryShape)
    /\ <>(fnName = "fetchWithRetry" => fnOut.done)

\* C22 witness: three retried answers, then a 503 returned on the fourth fetch.
C22_Witness ==
    /\ fnName = "fetchWithRetry" /\ fnOut.done
    /\ Len(fnOut.fetches) = 4
    /\ fnOut.ended = "returned" /\ fnOut.value = 503
    /\ fnOut.fetches[2].kind = "reject"

(***************************************************************************)
(* Specification SpecWindow: several part_003 ticks of one agent in the    *)
(* debate phase, against one Conclave service.  fnOut holds the wall clock *)
(* (in minutes), the comments the service shows on the agent's idea, every *)
(* POST /comment received, and per tick: where it is, the minute it read   *)
(* at its start, and what commentAlreadyPosted told it.                    *)
(***************************************************************************)
MaxTicks == 3
MaxMinute == 1

TickIds == 1..MaxTicks

\* marker = `[neo:${now.toISOString().slice(0, 16)}Z]`: one marker per minute
MarkerOf(minute) == [neo |-> minute]

InitWindow ==
    /\ TickIdle
    /\ fnName = "commentWindow"
    /\ fnIn = [ticks |-> MaxTicks]
    /\ fnOut = [clock |-> 0, comments |-> {}, posts |-> <<>>,
                ticks |-> [t \in TickIds |-> [pc |-> "idle", minute |-> 0, already |-> FALSE]]]

\* Time passes.
ClockTick ==
    /\ fnName = "commentWindow"
    /\ fnOut.clock < MaxMinute
    /\ fnOut' = [fnOut EXCEPT !.clock = fnOut.clock + 1]
    /\ UNCHANGED <<fnName, fnIn, tickVars>>

\* const now = nowUtc(): the scheduler starts tick t.
WindowStart(t) ==
    /\ fnName = "commentWindow"
    /\ fnOut.ticks[t].pc = "idle"
    /\ fnOut' = [fnOut EXCEPT !.ticks[t].pc = "status", !.ticks[t].minute = fnOut.clock]
    /\ UNCHANGED <<fnName, fnIn, tickVars>>

\* commentAlreadyPosted(commentsOnSelf, marker)
commentAlreadyPosted(comments, marker) == marker \in comments

\* GET /status answers with the comments as they stand; the tick computes
\* marker and already, and goes on to the comment branch `if (!already && selfTicker)`.
WindowStatus(t) ==
    /\ fnName = "commentWindow"
    /\ fnOut.ticks[t].pc = "status"
    /\ LET already == commentAlreadyPosted(fnOut.comments, MarkerOf(fnOut.ticks[t].minute))
       IN  fnOut' = [fnOut EXCEPT !.ticks[t].already = already,
                                  !.ticks[t].pc = IF already THEN "done" ELSE "comment"]
    /\ UNCHANGED <<fnName, fnIn, tickVars>>

\* POST /comment with the marker in the message; on 200 the service shows the
\* comment from then on.
WindowComment(t) ==
    /\ fnName = "commentWindow"
    /\ fnOut.ticks[t].pc = "comment"
    /\ \E status \in {200, 400} :
          LET marker == MarkerOf(fnOut.ticks[t].minute)
          IN  fnOut' = [fnOut EXCEPT
                          !.posts = Append(fnOut.posts, [tick |-> t, marker |-> marker, status |-> status]),
                          !.comments = IF status = 200 THEN fnOut.comments \cup {marker}
                                       ELSE fnOut.comments,
                          !.ticks[t].pc = "done"]
    /\ UNCHANGED <<fnName, fnIn, tickVars>>

NextWindow ==
    \/ ClockTick
    \/ \E t \in TickIds : WindowStart(t)
    \/ \E t \in TickIds : WindowStatus(t)
    \/ \E t \in TickIds : WindowComment(t)

SpecWindow == InitWindow /\ [][NextWindow]_vars

PostsCarrying(marker) ==
    {j \in 1..Len(fnOut.posts) : fnOut.posts[j].marker = marker}

\* C23: across all ticks, overlapping ones included, at most one comment
\* carrying a given minute marker is POSTed to /comment, and a tick that saw
\* the marker among the comments on its idea posts none.
C23_OneCommentPerMarker ==
    fnName = "commentWindow" =>
        /\ \A m \in 0..MaxMinute : Cardinality(PostsCarrying(MarkerOf(m))) <= 1
        /\ \A t \in TickIds :
              fnOut.ticks[t].already =>
                  \A j \in 1..Len(fnOut.posts) : fnOut.posts[j].tick # t

(***************************************************************************)
(* Specification SpecRefine: a sequence of non-overlapping part_003 ticks  *)
(* in the debate phase.  fnOut holds the wall clock in minutes, the hour   *)
(* marker in the description of the agent's idea as /status shows it (-1:  *)
(* none), and every POST /refine issued.                                   *)
(***************************************************************************)
MinutesPerHour == 60
StartMinute == 55
MaxClock == 65
MaxRefineTicks == 3

\* refineMarker = `[neo-refine:${now.toISOString().slice(0, 13)}Z]`: one per clock hour
RefineMarkerOf(minute) == minute \div MinutesPerHour

InitRefine ==
    /\ TickIdle
    /\ fnName = "refineGuard"
    /\ fnIn = [ticks |-> MaxRefineTicks]
    /\ fnOut = [clock |-> StartMinute, descMarker |-> -1, refines |-> <<>>, ticksRun |-> 0]

RefineClockTick ==
    /\ fnName = "refineGuard"
    /\ fnOut.clock < MaxClock
    /\ fnOut' = [fnOut EXCEPT !.clock = fnOut.clock + 1]
    /\ UNCHANGED <<fnName, fnIn, tickVars>>

\* One whole tick: GET /status shows the description; refinedThisHour is the
\* test for this hour's marker in it; with criticism flagged and no marker
\* the tick POSTs /refine, and a 200 puts the marker into the description.
RefineTick ==
    /\ fnName = "refineGuard"
    /\ fnOut.ticksRun < fnIn.ticks
    /\ \E flagged \in BOOLEAN, status \in {200, 500} :
          LET refineMarker == RefineMarkerOf(fnOut.clock)
              refinedThisHour == fnOut.descMarker = refineMarker
          IN  fnOut' =
                IF ~refinedThisHour /\ flagged
                THEN [fnOut EXCEPT
                        !.ticksRun = fnOut.ticksRun + 1,
                        !.refines = Append(fnOut.refines, [minute |-> fnOut.clock, status |-> status]),
                        !.descMarker = IF status = 200 THEN refineMarker ELSE fnOut.descMarker]
                ELSE [fnOut EXCEPT !.ticksRun = fnOut.ticksRun + 1]
    /\ UNCHANGED <<fnName, fnIn, tickVars>>

NextRefine == RefineClockTick \/ RefineTick

SpecRefine == InitRefine /\ [][NextRefine]_vars

\* C24: over non-overlapping ticks whose /status shows the description the
\* last successful /refine wrote, any two successful /refine requests are at
\* least 60 minutes apart.
C24_RefinesAnHourApart ==
    fnName = "refineGuard" =>
        \A i, j \in 1..Len(fnOut.refines) :
            (i < j /\ fnOut.refines[i].status = 200 /\ fnOut.refines[j].status = 200)
            => fnOut.refines[j].minute - fnOut.refines[i].minute >= 60

(***************************************************************************)
(* Specification SpecDaily: part_003 ticks started within one UTC day,     *)
(* around the configured hour.  fnIn holds CONCLAVE_NOTIFY_DAILY_BALANCE;  *)
(* fnOut the wall clock in minutes of the day and every daily balance      *)
(* message handed to Telegram.                                             *)
(***************************************************************************)
\* numEnv("CONCLAVE_DAILY_BALANCE_UTC_HOUR", 12)
DailyHour == 12
DailyFrom == 718
DailyTo == 722
MaxDailyTicks == 4

InitDaily ==
    /\ TickIdle
    /\ fnName = "dailyBalance"
    /\ fnIn \in [notifyDaily : BOOLEAN]
    /\ fnOut = [clock |-> DailyFrom, sent |-> <<>>, ticksRun |-> 0]

DailyClockTick ==
    /\ fnName = "dailyBalance"
    /\ fnOut.clock < DailyTo
    /\ fnOut' = [fnOut EXCEPT !.clock = fnOut.clock + 1]
    /\ UNCHANGED <<fnName, fnIn, tickVars>>

\* isOn(...) && now.getUTCHours() === hour && now.getUTCMinutes() === 0
shouldSendDailyBalanceUtc(notifyDaily, now) ==
    /\ notifyDaily
    /\ now \div MinutesPerHour = DailyHour
    /\ now % MinutesPerHour = 0

\* The start of a tick up to the daily message: now = nowUtc(), GET /balance,
\* and when shouldSendDailyBalanceUtc(now), the summary handed to tgSend.
DailyTick ==
    /\ fnName = "dailyBalance"
    /\ fnOut.ticksRun < MaxDailyTicks
    /\ \E ok \in BOOLEAN :
          fnOut' =
            IF shouldSendDailyBalanceUtc(fnIn.notifyDaily, fnOut.clock)
            THEN [fnOut EXCEPT !.ticksRun = fnOut.ticksRun + 1,
                               !.sent = Append(fnOut.sent, [minute |-> fnOut.clock, ok |-> ok])]
            ELSE [fnOut EXCEPT !.ticksRun = fnOut.ticksRun + 1]
    /\ UNCHANGED <<fnName, fnIn, tickVars>>

NextDaily == DailyClockTick \/ DailyTick

SpecDaily == InitDaily /\ [][NextDaily]_vars

\* C25: over the ticks started within one UTC day at most one daily balance
\* message reaches the operator when CONCLAVE_NOTIFY_DAILY_BALANCE is on, and
\* none is ever sent when it is off.
C25_OneDailyMessage ==
    fnName = "dailyBalance" =>
        /\ Cardinality({j \in 1..Len(fnOut.sent) : fnOut.sent[j].ok}) <= 1
        /\ ~fnIn.notifyDaily => fnOut.sent = <<>>

\* A debate part_003 is to pass over: its id is missing, its phase is ended
\* or results, or its text classifies as unknown.
PassedOver(d) ==
    \/ d.id = 0
    \/ ToLower(d.phase) \in {"ended", "results"}
    \/ classifyDebate(Str(d.topic)) = "unknown"

CandidateCount(ord) == Cardinality({j \in 1..Len(ord) : ~PassedOver(ord[j])})

\* C26: part_003 issues no join request for a debate that is to be passed
\* over, and the debates passed over use up none of the 6 attempts: a run
\* whose joins were all rejected softly has tried min(6, candidates) debates.
C26_SkippedCostNothing ==
    variant = "p003" =>
        /\ \A j \in 1..Len(joinLog) :
              \E k \in 1..Len(ordered) :
                  ordered[k].id = joinLog[j].id /\ ~PassedOver(ordered[k])
        /\ Len(joinLog) <= 6 /\ tried = Len(joinLog)
        /\ (pc = "done" /\ ordered # <<>>
              /\ \A j \in 1..Len(joinLog) : joinLog[j].outcome = "soft")
           => Len(joinLog) = Min(6, CandidateCount(ordered))

\* C26 witness: seven debates, the first of unknown topic; the other six
\* were all tried (and rejected as full).
C26_Witness ==
    /\ variant = "p003" /\ pc = "done"
    /\ Len(ordered) = 7 /\ PassedOver(ordered[1])
    /\ Len(joinLog) = 6 /\ joinLog[1].id = 2 /\ joinLog[6].id = 7

(***************************************************************************)
(* Specification SpecWire: the join loop of part_003 with every join       *)
(* request stepped through fetchWithRetry.  fnIn is the ordered list (ids  *)
(* pairwise distinct); fnOut holds idx and tried of the loop, the debate   *)
(* the current httpJson call is for (cur, 0: none) with its retry state,   *)
(* and wire: the debate id of every POST the service answered.             *)
(***************************************************************************)
MaxWireDebates == 2

\* What one fetch of POST /debates/:id/join can do.
WireOutcomes ==
    {[kind |-> "response", status |-> r.status, err |-> ""] :
        r \in LoopJoinResponses \ {NetworkError}}
    \cup {[kind |-> "reject", status |-> 0, err |-> "ECONNRESET"]}

\* httpJson: { status: res.status, text, json } of the response fetchWithRetry returned
ResponseOf(status) == CHOOSE r \in LoopJoinResponses : r.status = status

InitWire ==
    /\ TickIdle
    /\ fnName = "joinWire"
    /\ fnIn \in {[ordered |-> pickDebatesOrdered_p003([j \in 1..n |-> LongDebate(j)])] :
                    n \in 1..MaxWireDebates}
    /\ fnOut = [pc |-> "join", idx |-> 1, tried |-> 0, cur |-> 0, call |-> FreshCall, wire |-> <<>>]

\* One fetch of the join request for the current candidate: the first fetch
\* of a call follows `tried += 1`; a call that ends hands its response to the
\* loop (exit on 200, continue on a soft rejection, ERR and exit otherwise),
\* or throws into the top-level handler.
WireFetch ==
    /\ fnName = "joinWire"
    /\ fnOut.pc = "join"
    /\ fnOut.cur # 0 \/ NextCandidate("p003", EnvDefault, fnIn.ordered, fnOut.idx, fnOut.tried) # 0
    /\ LET j == IF fnOut.cur # 0 THEN fnOut.cur
                ELSE NextCandidate("p003", EnvDefault, fnIn.ordered, fnOut.idx, fnOut.tried)
           triedNow == IF fnOut.cur # 0 THEN fnOut.tried ELSE fnOut.tried + 1
       IN  \E o \in WireOutcomes :
              LET call == FetchStep(fnOut.call, o, Retries)
                  wire == IF o.kind = "response"
                          THEN Append(fnOut.wire, fnIn.ordered[j].id) ELSE fnOut.wire
                  outcome == IF ~call.done THEN "pending"
                             ELSE IF call.ended = "thrown" THEN "throw"
                             ELSE JoinOutcome("p003", ResponseOf(call.value))
              IN  fnOut' =
                    CASE outcome = "pending" ->
                           [fnOut EXCEPT !.cur = j, !.tried = triedNow, !.call = call, !.wire = wire]
                      [] outcome = "soft" ->
                           [fnOut EXCEPT !.cur = 0, !.tried = triedNow, !.call = FreshCall,
                                         !.wire = wire, !.idx = j + 1]
                      [] outcome = "throw" ->
                           [fnOut EXCEPT !.cur = 0, !.tried = triedNow, !.call = call,
                                         !.wire = wire, !.idx = j, !.pc = "catch"]
                      [] OTHER ->
                           [fnOut EXCEPT !.cur = 0, !.tried = triedNow, !.call = call,
                                         !.wire = wire, !.idx = j, !.pc = "done"]
    /\ UNCHANGED <<fnName, fnIn, tickVars>>

\* The loop ran out of candidates: tickEnd("ok"); process.exit(0)
WireLoopEnd ==
    /\ fnName = "joinWire"
    /\ fnOut.pc = "join" /\ fnOut.cur = 0
    /\ NextCandidate("p003", EnvDefault, fnIn.ordered, fnOut.idx, fnOut.tried) = 0
    /\ fnOut' = [fnOut EXCEPT !.pc = "done"]
    /\ UNCHANGED <<fnName, fnIn, tickVars>>

NextWire == WireFetch \/ WireLoopEnd

SpecWire == InitWire /\ [][NextWire]_vars

\* C27: in a run of part_003 over debates with pairwise distinct ids, at most
\* one POST /debates/{id}/join reaches the service for any one debate id.
C27_OneJoinPostPerDebate ==
    fnName = "joinWire" =>
        \A i, j \in 1..Len(fnOut.wire) : fnOut.wire[i] = fnOut.wire[j] => i = j

\* What /status reported: !!(st.inGame ?? st.inDebate), from the two fields.
ReportedInGame ==
    IF st.inGameField # "unset" THEN st.inGameField = "true" ELSE st.inDebateField = "true"

Requested(req) == \E j \in 1..Len(apiLog) : apiLog[j] = req

\* C28: in part_003 a join (and the /debates listing before it) is requested
\* only in a run whose /status reported not in game; /allocate only when it
\* reported in game in phase allocation; /comment and /refine only when it
\* reported in game in phase debate, proposal or propose.
C28_ActionMatchesState ==
    variant = "p003" =>
        /\ (Requested("POST /join") \/ Requested("GET /debates")) => ~ReportedInGame
        /\ Requested("POST /allocate") => (ReportedInGame /\ st.phase = "allocation")
        /\ (Requested("POST /comment") \/ Requested("POST /refine"))
              => (ReportedInGame /\ st.phase \in {"debate", "proposal", "propose"})

\* C28 witness: /status reported phase allocation but not in game; the run
\* went for a join and issued no /allocate.
C28_Witness ==
    /\ variant = "p003" /\ pc = "done"
    /\ st.phase = "allocation" /\ st.inGameField = "false"
    /\ Requested("POST /join") /\ ~Requested("POST /allocate")

TickEndLinesOf(lines) == {j \in 1..Len(lines) : lines[j] # "tick_start"}

\* C29: a part_003 run logs tick_start once, logs no tick_end while it runs
\* and exactly one when it ends: status=ok on every path that ends in main
\* (handled remote errors included), status=failed exactly when the
\* top-level handler ran; a further call of tickEnd logs nothing.
C29_OneTickEnd ==
    variant = "p003" =>
        /\ console # <<>> /\ console[1] = "tick_start"
        /\ Cardinality({j \in 1..Len(console) : console[j] = "tick_start"}) = 1
        /\ ~Terminated => (~tickEnded /\ TickEndLinesOf(console) = {})
        /\ pc = "done" => console = <<"tick_start", "tick_end status=ok">>
        /\ pc = "failed" => console = <<"tick_start", "tick_end status=failed">>
        /\ Terminated =>
              /\ tickEnded
              /\ TickEndLines(tickEnded, console, "ok") = console
              /\ TickEndLines(tickEnded, console, "failed") = console

\* C29 witness, handled remote error: /status answered 500, the ERR message
\* went out, the run ended with tick_end status=ok.
C29_Witness ==
    /\ variant = "p003" /\ pc = "done"
    /\ notes = <<[kind |-> "ERR_status", ok |-> TRUE]>>
    /\ console = <<"tick_start", "tick_end status=ok">>

\* C29 witness, exception: a join request threw; tick_end status=failed.
C29_WitnessFailed ==
    /\ variant = "p003" /\ pc = "failed"
    /\ joinLog # <<>> /\ joinLog[Len(joinLog)].outcome = "throw"
    /\ console = <<"tick_start", "tick_end status=failed">>

(***************************************************************************)
(* Specification SpecRemainder: the remainder loop of buildAutoAllocations *)
(* (part_003), one pass at a time.  fnOut holds whether the input reaches  *)
(* the loop, allocs, rem2, idx (from 1) and the number of passes made.     *)
(***************************************************************************)
MaxLoopIdeas == 5

\* The ideas that survive the filter of buildAutoAllocations.
LoopIdeaKinds == {x \in IdeaKinds : UsableIdea_p003(x)}

\* CONCLAVE_SELF_ALLOC_PCT in tenths
LoopPctVals == SelfPctVals \cup {0, 300}

InitRemainder ==
    /\ TickIdle
    /\ fnName = "remainderLoop"
    /\ fnIn \in [ideas : SeqsUpTo(LoopIdeaKinds, MaxLoopIdeas),
                 selfTicker : SelfTickerVals, selfPct10 : LoopPctVals]
    /\ LET entry == LoopEntry(fnIn.ideas, fnIn.selfTicker, fnIn.selfPct10)
       IN  fnOut = [reached |-> entry.reached, allocs |-> entry.allocs,
                    rem2 |-> entry.rem2, idx |-> 1, passes |-> 0]

\* while (rem2 > 0 && allocs.length > 0) { ... }: one pass
RemainderPass ==
    /\ fnName = "remainderLoop"
    /\ fnOut.reached
    /\ fnOut.rem2 > 0 /\ Len(fnOut.allocs) > 0
    /\ LET s == RemainderStep(fnOut.allocs, fnOut.rem2, fnOut.idx)
       IN  fnOut' = [fnOut EXCEPT !.allocs = s.allocs, !.rem2 = s.rem2, !.idx = s.idx,
                                  !.passes = fnOut.passes + 1]
    /\ UNCHANGED <<fnName, fnIn, tickVars>>

NextRemainder == RemainderPass

\* The loop is synchronous code: it keeps running while its condition holds.
SpecRemainder == InitRemainder /\ [][NextRemainder]_vars /\ WF_vars(RemainderPass)

\* At the loop head: no entry is above 60, rem2 is not negative, and while
\* rem2 > 0 some entry is below 60.
LoopHeadOk ==
    /\ \A j \in 1..Len(fnOut.allocs) : fnOut.allocs[j].percentage <= 60
    /\ fnOut.rem2 >= 0
    /\ fnOut.rem2 > 0 => \E j \in 1..Len(fnOut.allocs) : fnOut.allocs[j].percentage < 60

\* C30: for every input that reaches the remainder loop of
\* buildAutoAllocations, at every pass no entry exceeds 60 and, while
\* rem2 > 0, some entry is below 60; the loop ends with rem2 = 0.
C30_RemainderLoopTerminates ==
    /\ []((fnName = "remainderLoop" /\ fnOut.reached) => LoopHeadOk)
    /\ <>(fnName = "remainderLoop" => (~fnOut.reached \/ fnOut.rem2 = 0))

\* C30 witness: a single other idea next to the self idea; the loop needed
\* 48 units and passed over the capped entry on its way to rem2 = 0.
C30_Witness ==
    /\ fnName = "remainderLoop" /\ fnOut.reached
    /\ fnOut.rem2 = 0 /\ fnOut.passes > 48
    /\ \E j \in 1..Len(fnOut.allocs) : fnOut.allocs[j].percentage = 60

====
